---- MODULE Spec2Model ----
(***************************************************************************)
(* A model of the watchability pipeline of nba-watchability:               *)
(*   - the closing-spread store and the build passes that freeze it        *)
(*     (core/build_watchability_df.py, build_watchability_df),             *)
(*   - the live spread blend (_live_weight_a, _effective_spread_row),      *)
(*   - the disk response cache (core/http_cache.py, get_json_cached),      *)
(*   - the injury status reconciler and the health / star-factor scorer,   *)
(*   - the fan-out of one build pass over games and teams, with the worker *)
(*     pools and the shared cache file of the team map,                    *)
(*   - the watchability score and its label (core/watchability.py),        *)
(*   - the live clock text and the minutes remaining parsed from it.       *)
(*                                                                         *)
(* Numbers.  Python floats are modelled by exact integers in fixed units:  *)
(*   spreads            half points            (-3.5 is -7)                *)
(*   live weight a      1/BlendScale           (a = 1.0 is BlendScale)     *)
(*   effective spreads  half points/BlendScale                             *)
(*   injury weights     tenths                 (0.4 is 4)                  *)
(*   health score       an exact fraction [n, d]   (1.0 is n = d)          *)
(*   star factor        an integer numerator over a fixed denominator      *)
(*   win percentage     per mille              (0.5 is 500)                *)
(*   importance         hundredths             (0.1 is 10)                 *)
(* An optional float is a record [k, v]: k = "none" is Python's None,      *)
(* k = "nan" is float('nan'), k = "num" carries the number in v.           *)
(***************************************************************************)
EXTENDS Integers, Sequences, FiniteSets, TLC

VARIABLES
    \* ---- closing-spread store and build passes
    status,          \* game -> "pre" | "in" | "post": the scoreboard's state of the game
    closeStoreFile,  \* game id -> optional float: output/state/close_spreads.json
    obs,             \* game -> the row of the last pass's DataFrame (or no row)
    lastPreObs,      \* game -> home spread of the last row seen as 'pre' under its id (history)
    overwrote,       \* game -> a pre-game pass replaced a different stored number (history)
    passes,          \* number of build passes run (history, bounded)
    storeSaves,      \* times the last pass called _save_close_spread_store (history)
    \* ---- live spread blend of one row
    blendIn,         \* the cells and maps one row's close / effective spread is computed from
    blendOut,        \* the row's "Home spread close", "a(t)" and "Home spread effective"
    \* ---- disk response cache
    cache,           \* cache key -> the cache file of the key (absent, unreadable, or an entry)
    now,             \* time.time(), in whole seconds
    call,            \* the last get_json_cached call: arguments, file before and after, result
    \* ---- injury status reconciler on one team of one game
    injIn,           \* the roster, the league feed, the game summary and the day of the game
    injOut,          \* the team's health, key injuries, detail bundle and star factor
    \* ---- one call of build_watchability_df, step by step
    pc,              \* where the call is: odds, standings, rows, summaries, teams, done
    includePost,     \* the include_post argument
    oddsFeed,        \* game -> what the odds feed and the scoreboard map hold for it
    winpctKeys,      \* the team keys of the standings maps
    df,              \* game -> the row of the frame after the include_post filter
    summaryTask,     \* game -> the per-game summary future and its result
    leagueInjuries,  \* team key -> the league feed's injuries of the team, as loaded
    teamTask,        \* team key -> the per-team impact future and its result
    teamsCache,      \* the cache file of key "teams", its temp file, what the endpoint answers
    outcome,         \* what the call gave: raised or returned, and the scored rows
    \* ---- the watchability score of one matchup
    scoreIn,         \* the win percentages and spread of a matchup, or an aWI to label
    scoreOut,        \* team quality, closeness, utility, aWI and label
    \* ---- the live clock of one game
    clockIn,         \* the scoreboard's status, period and displayClock of the game
    clockOut,        \* the time_remaining text, the minutes remaining and the live weight
    \* ---- concurrent calls of get_json_cached on one cache key
    thr,             \* thread -> where its call is, what it read, its file, its result
    disk,            \* the names path and path.tmp, and the files
    answers,         \* whether the endpoint answers the requests of the batch
    \* ---- the importance of the teams of the standings
    impIn,           \* detail_map: the teams' conference, seed and games behind, in dict order
    impOut           \* team -> importance, seed radius and playoff radius

storeVars == <<status, closeStoreFile, obs, lastPreObs, overwrote, passes, storeSaves>>
blendVars == <<blendIn, blendOut>>
cacheVars == <<cache, now, call>>
injVars == <<injIn, injOut>>
batchVars == <<pc, includePost, oddsFeed, winpctKeys, df, summaryTask, leagueInjuries, teamTask,
               teamsCache, outcome>>

scoreVars == <<scoreIn, scoreOut>>
clockVars == <<clockIn, clockOut>>
raceVars == <<thr, disk, answers>>
impVars == <<impIn, impOut>>

vars == <<storeVars, blendVars, cacheVars, injVars, batchVars, scoreVars, clockVars, raceVars,
          impVars>>

------------------------------------------------------------------------------
(* Optional floats *)

NoneV == [k |-> "none", v |-> 0]
NaNV == [k |-> "nan", v |-> 0]
Num(x) == [k |-> "num", v |-> x]
IsNum(o) == o.k = "num"
IsNone(o) == o.k = "none"
IsNaN(o) == o.k = "nan"

------------------------------------------------------------------------------
(* Bounds and value sets of the model *)

MaxPasses == 3

Games == {"g1", "g2"}

\* home spreads in half points: -4.5, -3.5
SpreadVals == {-9, -7}

OptSpread == {NoneV} \cup {Num(s) : s \in SpreadVals}

StoredVals == {NoneV, NaNV} \cup {Num(s) : s \in SpreadVals}

------------------------------------------------------------------------------
(* One build pass over the odds feed: build_watchability_df, the part that  *)
(* builds the rows and freezes the closing spreads.                        *)

\* What the feeds say about one game in one pass: whether the odds feed lists
\* it, whether the scoreboard map has a record for it (which gives its state
\* and its ESPN game id), and the odds feed's consensus home spread.
NoGame == [present |-> FALSE, espn |-> FALSE, spread |-> NoneV]

FeedRows == {NoGame} \cup [present : {TRUE}, espn : BOOLEAN, spread : OptSpread]

NoRow == [inDf |-> FALSE, status |-> "pre", gid |-> FALSE,
          spreadRaw |-> NoneV, spread |-> NoneV]

\* pd.DataFrame(rows): a column that holds at least one float becomes float64
\* and its None cells become NaN; a column of None only stays None.
HomeSpreadColumn(feed, g) ==
    IF IsNone(feed[g].spread) /\ (\E h \in Games : feed[h].present /\ IsNum(feed[h].spread))
    THEN NaNV
    ELSE feed[g].spread

\* df["Status"]: the scoreboard's state, or "pre" when the lookup misses.
RowStatus(feed, g) == IF feed[g].espn THEN status[g] ELSE "pre"

\* the row is in the frame after `if not include_post: df = df[Status != "post"]`
InFrame(feed, g, include_post) ==
    feed[g].present /\ (include_post \/ RowStatus(feed, g) # "post")

DfRow(feed, g, include_post) ==
    IF InFrame(feed, g, include_post)
    THEN [inDf |-> TRUE, status |-> RowStatus(feed, g), gid |-> feed[g].espn,
          spreadRaw |-> feed[g].spread, spread |-> HomeSpreadColumn(feed, g)]
    ELSE NoRow

\* The freeze loop's three `continue` guards: the row writes the store iff it
\* has a game id, is 'pre', and its "Home spread" cell is not None.
FreezeWrites_NoPreCheck(r) == r.inDf /\ r.gid /\ ~IsNone(r.spread)

FreezeWrites(r) == r.inDf /\ r.gid /\ r.status = "pre" /\ ~IsNone(r.spread)

\* close_store after the loop: close_store[gid] = float(s) for the writing rows
FrozenStore(store, rows) ==
    [g \in Games |-> IF FreezeWrites(rows[g]) THEN rows[g].spread ELSE store[g]]

\* the freeze loop and the save of the store, over the rows of the frame
FreezeStore(rows) ==
    LET loaded == closeStoreFile
        frozen == FrozenStore(loaded, rows)
        store_changed == \E g \in Games : FreezeWrites(rows[g])
    IN  /\ passes' = passes + 1
        /\ obs' = rows
        /\ closeStoreFile' = IF store_changed THEN frozen ELSE closeStoreFile
        /\ storeSaves' = IF store_changed THEN 1 ELSE 0
        /\ lastPreObs' = [g \in Games |->
                IF rows[g].inDf /\ rows[g].gid /\ rows[g].status = "pre"
                THEN rows[g].spreadRaw ELSE lastPreObs[g]]
        /\ overwrote' = [g \in Games |->
                overwrote[g] \/ (FreezeWrites(rows[g]) /\ IsNum(loaded[g])
                                 /\ IsNum(rows[g].spread) /\ loaded[g] # rows[g].spread)]
        /\ UNCHANGED status

BuildPass(feed, include_post) ==
    /\ passes < MaxPasses
    /\ FreezeStore([g \in Games |-> DfRow(feed, g, include_post)])
    /\ UNCHANGED <<blendVars, cacheVars, injVars, batchVars, scoreVars, clockVars, raceVars, impVars>>

\* The scoreboard moves a game pre -> in -> post (external to the pipeline).
Advance(g) ==
    /\ status[g] # "post"
    /\ status' = [status EXCEPT ![g] = IF status[g] = "pre" THEN "in" ELSE "post"]
    /\ UNCHANGED <<closeStoreFile, obs, lastPreObs, overwrote, passes, storeSaves>>
    /\ UNCHANGED <<blendVars, cacheVars, injVars, batchVars, scoreVars, clockVars, raceVars, impVars>>

InitStore ==
    /\ status = [g \in Games |-> "pre"]
    /\ closeStoreFile = [g \in Games |-> NoneV]
    /\ obs = [g \in Games |-> NoRow]
    /\ lastPreObs = [g \in Games |-> NoneV]
    /\ overwrote = [g \in Games |-> FALSE]
    /\ passes = 0
    /\ storeSaves = 0

NextStore ==
    \/ \E feed \in [Games -> FeedRows], include_post \in BOOLEAN : BuildPass(feed, include_post)
    \/ \E g \in Games : Advance(g)


------------------------------------------------------------------------------
(* The live spread blend of one row: _close_spread_row, _live_weight_a and  *)
(* _effective_spread_row, applied to the cells of one DataFrame row.       *)

\* a = 1.0 - t/48.0 : the live weight is kept in units of 1/BlendScale
BlendScale == 48

\* an authoritative close (ESPN summary) in half points: -5.0
EspnCloseVals == {-10}

\* "Minutes remaining" cells: None, NaN, or whole minutes (60 is past 48)
MinuteCells == {NoneV, NaNV} \cup {Num(m) : m \in {0, 12, 24, 36, 48, 60}}

\* One row's inputs.  gid: the row has an ESPN game id; spreadRaw: the odds
\* feed's home spread; others: another row of the frame holds a float in the
\* same column (so a None cell is NaN); espn: close_spreads_espn.get(gid);
\* stored: close_store.get(gid); mr: the row's "Minutes remaining" cell.
BlendInputs ==
    { r \in [status : {"pre", "in", "post"}, gid : BOOLEAN, spreadRaw : OptSpread,
             others : BOOLEAN,
             espn : {NoneV} \cup {Num(c) : c \in EspnCloseVals},
             stored : StoredVals, mr : MinuteCells] :
        /\ ~r.gid => (r.status = "pre" /\ IsNone(r.espn) /\ IsNone(r.stored))
        /\ r.status # "in" => IsNone(r.mr) }

\* the row's "Home spread" cell (None becomes NaN in a float64 column)
CurCell(r) == IF IsNone(r.spreadRaw) /\ r.others THEN NaNV ELSE r.spreadRaw

\* a column built by df.apply: a None result is NaN when another row gave a float
ApplyCell(x, others) == IF IsNone(x) /\ others THEN NaNV ELSE x

\* _close_spread_row: the authoritative close, else the stored close, else
\* the current spread (None when there is none)
CloseSpreadRow_StoreFirst(gid, cur, espn, stored) ==
    IF ~gid THEN cur
    ELSE IF ~IsNone(stored) THEN stored
    ELSE IF ~IsNone(espn) THEN espn
    ELSE cur

CloseSpreadRow(gid, cur, espn, stored) ==
    IF gid /\ ~IsNone(espn) THEN espn
    ELSE IF ~gid THEN cur
    ELSE IF IsNone(stored) THEN cur
    ELSE stored

LiveWeightA_NoClamp(mr) ==
    IF IsNone(mr) THEN 0
    ELSE IF IsNaN(mr) THEN BlendScale
    ELSE BlendScale - mr.v

\* _live_weight_a: a = max(0, min(1, 1 - t/48)); None gives 0; for NaN,
\* min(1.0, nan) is 1.0 in Python, so a is 1
LiveWeightA(mr) ==
    IF IsNone(mr) THEN 0
    ELSE IF IsNaN(mr) THEN BlendScale
    ELSE LET a == BlendScale - mr.v
         IN  IF a < 0 THEN 0 ELSE IF a > BlendScale THEN BlendScale ELSE a

\* a * cur + (1 - a) * close over floats: NaN if an operand is NaN
Blend(a, cur, close) ==
    IF IsNaN(cur) \/ IsNaN(close) THEN NaNV
    ELSE Num(a * cur.v + (BlendScale - a) * close.v)

\* a float as an effective spread (units of half points / BlendScale)
AsEffective(x) == IF IsNum(x) THEN Num(BlendScale * x.v) ELSE x

EffectiveSpreadRow_AlwaysBlend(st, cur, close, a) ==
    IF IsNone(cur) THEN NoneV
    ELSE IF IsNone(close) THEN AsEffective(cur)
    ELSE Blend(a, cur, close)

\* _effective_spread_row
EffectiveSpreadRow(st, cur, close, a) ==
    IF IsNone(cur) THEN NoneV
    ELSE IF st # "in" THEN AsEffective(cur)
    ELSE IF IsNone(close) THEN AsEffective(cur)
    ELSE Blend(a, cur, close)

NotEvaluated == [done |-> FALSE, close |-> NoneV, a |-> 0, eff |-> NoneV]

\* df["Home spread close"], df["a(t)"], df["Home spread effective"] of the row
EvalRow ==
    /\ ~blendOut.done
    /\ LET r == blendIn
           cur == CurCell(r)
           close == ApplyCell(CloseSpreadRow(r.gid, cur, r.espn, r.stored), r.others)
           a == LiveWeightA(r.mr)
       IN  blendOut' = [done |-> TRUE, close |-> close, a |-> a,
                        eff |-> ApplyCell(EffectiveSpreadRow(r.status, cur, close, a), r.others)]
    /\ UNCHANGED blendIn
    /\ UNCHANGED <<storeVars, cacheVars, injVars, batchVars, scoreVars, clockVars, raceVars, impVars>>

InitBlend ==
    /\ blendIn \in BlendInputs
    /\ blendOut = NotEvaluated

IdleBlend ==
    /\ blendIn = [status |-> "pre", gid |-> FALSE, spreadRaw |-> NoneV, others |-> FALSE,
                  espn |-> NoneV, stored |-> NoneV, mr |-> NoneV]
    /\ blendOut = NotEvaluated

NextBlend == EvalRow

------------------------------------------------------------------------------
(* The disk response cache: core/http_cache.py                             *)

MaxTime == 2

CacheKeys == {"k1", "k2"}

\* response bodies (parsed JSON)
Payloads == {"d1", "d2"}

\* ttl_seconds arguments
TtlVals == {0, 1}

\* A cache file: absent, unreadable (not JSON), or {"_ts": ts, "data": data}
AbsentFile == [kind |-> "absent", ts |-> 0, data |-> ""]
UnreadableFile == [kind |-> "unreadable", ts |-> 0, data |-> ""]
EntryFile(ts, d) == [kind |-> "entry", ts |-> ts, data |-> d]

\* What requests.get / raise_for_status / r.json() give: a body, or an
\* exception (timeout, HTTP error status, invalid JSON)
NetFail == [ok |-> FALSE, data |-> ""]
NetOutcomes == {NetFail} \cup [ok : {TRUE}, data : Payloads]

NoCall == [key |-> "", ttl |-> 0, at |-> 0, before |-> AbsentFile, net |-> NetFail,
           writeOk |-> TRUE, outcome |-> "none", data |-> "", from_cache |-> FALSE,
           fetches |-> 0, after |-> AbsentFile]

\* _read_json: the parsed file, or None when it is missing or not JSON
ReadJson(f) == f.kind = "entry"

\* the TTL test: `if cached:` and `now - ts <= float(ttl_seconds)`
CacheHit_NoTtl(f, t, ttl) == ReadJson(f)

CacheHit(f, t, ttl) == ReadJson(f) /\ t - f.ts <= ttl

\* the except branch: `if cached and "data" in cached`
StaleFallback_Never(f) == FALSE

StaleFallback(f) == ReadJson(f)

\* get_json_cached on the cache file `cached` at time t, meeting network
\* outcome net; writeOk: _write_json (temp file, os.replace) succeeds.
\* Gives the call's outcome, its data, the fetch attempts made and the file after.
CachedCall(cached, t, ttl, net, writeOk) ==
    IF CacheHit(cached, t, ttl)
    THEN [outcome |-> "return", data |-> cached.data, from_cache |-> TRUE,
          fetches |-> 0, after |-> cached]
    ELSE IF net.ok /\ writeOk
    THEN [outcome |-> "return", data |-> net.data, from_cache |-> FALSE,
          fetches |-> 1, after |-> EntryFile(t, net.data)]
    ELSE IF StaleFallback(cached)
    THEN [outcome |-> "return", data |-> cached.data, from_cache |-> TRUE,
          fetches |-> 1, after |-> cached]
    ELSE [outcome |-> "raise", data |-> "", from_cache |-> FALSE,
          fetches |-> 1, after |-> cached]

\* one call get_json_cached(url, cache_key=key, ttl_seconds=ttl)
GetJsonCached(key, ttl, net, writeOk) ==
    LET r == CachedCall(cache[key], now, ttl, net, writeOk)
    IN  /\ (~net.ok => writeOk)
        /\ cache' = [cache EXCEPT ![key] = r.after]
        /\ call' = [key |-> key, ttl |-> ttl, at |-> now, before |-> cache[key],
                    net |-> net, writeOk |-> writeOk] @@ r
        /\ UNCHANGED now
        /\ UNCHANGED <<storeVars, blendVars, injVars, batchVars, scoreVars, clockVars, raceVars, impVars>>

\* the clock advances
Tick ==
    /\ now < MaxTime
    /\ now' = now + 1
    /\ UNCHANGED <<cache, call>>
    /\ UNCHANGED <<storeVars, blendVars, injVars, batchVars, scoreVars, clockVars, raceVars, impVars>>

\* a cache file is damaged outside the program (the unreadable case of _read_json)
DamageFile(key) ==
    /\ cache[key].kind = "entry"
    /\ cache' = [cache EXCEPT ![key] = UnreadableFile]
    /\ UNCHANGED <<now, call>>
    /\ UNCHANGED <<storeVars, blendVars, injVars, batchVars, scoreVars, clockVars, raceVars, impVars>>

InitCache ==
    /\ cache = [k \in CacheKeys |-> AbsentFile]
    /\ now = 0
    /\ call = NoCall

NextCache ==
    \/ \E key \in CacheKeys, ttl \in TtlVals, net \in NetOutcomes, writeOk \in BOOLEAN :
          GetJsonCached(key, ttl, net, writeOk)
    \/ Tick
    \/ \E key \in CacheKeys : DamageFile(key)

------------------------------------------------------------------------------
(* Injury status reconciler, team health and star factor                   *)
(*                                                                         *)
(* Status labels are strings of a finite vocabulary; strip(), upper() and  *)
(* lower() are the tables of that vocabulary, and `x in s` is the table of *)
(* the substrings the code tests for.  Injury weights are in tenths        *)
(* (0.4 is 4), team health is an exact fraction [n, d] (1.0 is n = d).     *)

\* each label as the feeds write it, after upper() and after lower()
LabelForms ==
    { <<"Out", "OUT", "out">>, <<"Gtd", "GTD", "gtd">>, <<"Ofs", "OFS", "ofs">>,
      <<"Day-To-Day", "DAY-TO-DAY", "day-to-day">>,
      <<"Questionable", "QUESTIONABLE", "questionable">>,
      <<"Doubtful", "DOUBTFUL", "doubtful">>,
      <<"Probable", "PROBABLE", "probable">>,
      <<"Available", "AVAILABLE", "available">>,
      <<"Active", "ACTIVE", "active">>,
      <<"Friday", "FRIDAY", "friday">>, <<"Saturday", "SATURDAY", "saturday">> }

FormsOf(s) == CHOOSE t \in LabelForms : s \in {t[1], t[2], t[3]}

Strip(s) == CASE s = "GTD " -> "GTD" [] s = " " -> "" [] OTHER -> s

Upper(s) == IF s = "" THEN "" ELSE FormsOf(s)[2]

Lower(s) == IF s = "" THEN "" ELSE FormsOf(s)[3]

\* `sub in s` for a lower-case label s
Contains(s, sub) ==
    sub \in (CASE s = "out" -> {"out"}
               [] s = "doubtful" -> {"doubt"}
               [] s = "questionable" -> {"question"}
               [] s = "probable" -> {"prob", "probable"}
               [] s = "available" -> {"available"}
               [] s = "active" -> {"active"}
               [] OTHER -> {})

DayToDaySpellings == {"day-to-day", "day to day", "daytoday", "dtd"}

GameTimeSpellings ==
    {"gtd", "dtd", "day-to-day", "day to day", "game-time decision", "game time decision"}

NormalizeStatusForDisplay_KeepOut(label) ==
    LET s == Strip(label)
    IN  IF s = "" THEN "Available"
        ELSE IF Upper(s) = "GTD" THEN "GTD"
        ELSE IF Lower(s) \in DayToDaySpellings THEN "GTD"
        ELSE s

\* _normalize_status_for_display; None is ""
NormalizeStatusForDisplay(label) ==
    LET s == Strip(label)
    IN  IF s = "" THEN "Available"
        ELSE IF Upper(s) = "OUT" THEN "Out"
        ELSE IF Upper(s) = "GTD" THEN "GTD"
        ELSE IF Lower(s) \in DayToDaySpellings THEN "GTD"
        ELSE s

WeightScale == 10
INJURY_WEIGHT_AVAILABLE == 0
INJURY_WEIGHT_QUESTIONABLE == 4
INJURY_WEIGHT_DOUBTFUL == 7
INJURY_WEIGHT_OUT == 10
INJURY_OVERALL_IMPORTANCE_WEIGHT == 6
KEY_INJURY_IMPACT_SHARE_THRESHOLD == 1

\* health_espn._injury_weight
InjuryWeight(label) ==
    LET s == Lower(Strip(label))
    IN  IF s = "" THEN INJURY_WEIGHT_AVAILABLE
        ELSE IF Contains(s, "injur") THEN INJURY_WEIGHT_OUT
        ELSE IF Contains(s, "out") THEN INJURY_WEIGHT_OUT
        ELSE IF Contains(s, "doubt") THEN INJURY_WEIGHT_DOUBTFUL
        ELSE IF Contains(s, "question") THEN INJURY_WEIGHT_QUESTIONABLE
        ELSE IF s \in GameTimeSpellings THEN INJURY_WEIGHT_QUESTIONABLE
        ELSE INJURY_WEIGHT_AVAILABLE

\* the local _status_priority of build_watchability_df
StatusPriority(label) ==
    LET s == Lower(Strip(label))
    IN  IF Contains(s, "out") \/ Contains(s, "injur") THEN 3
        ELSE IF Contains(s, "doubt") THEN 2
        ELSE IF Contains(s, "question") \/ s \in GameTimeSpellings THEN 1
        ELSE 0

\* a shortComment, by what the code looks for in it: the day names and the
\* status words its lower-cased text contains; None and "" contain nothing
NoComment == [days |-> {}, words |-> {}]

\* _weight_for_abbr_with_short_comment; abbr None is ""
WeightForAbbrWithShortComment_NoDayGate(abbr, sc, target_dow) ==
    LET a == Upper(Strip(abbr))
        inferred ==
            IF "probable" \in sc.words THEN "Probable"
            ELSE IF "doubtful" \in sc.words THEN "Doubtful"
            ELSE "Questionable"
    IN  IF a = "" THEN InjuryWeight("Available")
        ELSE IF a \in {"OUT", "OFS"} THEN InjuryWeight("Out")
        ELSE IF a # "GTD" THEN InjuryWeight("Available")
        ELSE InjuryWeight(inferred)

WeightForAbbrWithShortComment(abbr, sc, target_dow) ==
    LET a == Upper(Strip(abbr))
        dow == Lower(Strip(target_dow))
        inferred ==
            IF dow # "" /\ dow \in sc.days
            THEN IF "probable" \in sc.words THEN "Probable"
                 ELSE IF "doubtful" \in sc.words THEN "Doubtful"
                 ELSE "Questionable"
            ELSE "Questionable"
    IN  IF a = "" THEN InjuryWeight("Available")
        ELSE IF a \in {"OUT", "OFS"} THEN InjuryWeight("Out")
        ELSE IF a # "GTD" THEN InjuryWeight("Available")
        ELSE InjuryWeight(inferred)

\* _parse_fantasy_abbr of one league injury; a missing field is ""
ParseFantasyAbbr(inj) ==
    IF Strip(inj.abbr) # "" THEN Upper(Strip(inj.abbr))
    ELSE IF Strip(inj.desc) # "" THEN Upper(NormalizeStatusForDisplay(Strip(inj.desc)))
    ELSE IF Strip(inj.type) # "" THEN Upper(NormalizeStatusForDisplay(Strip(inj.type)))
    ELSE IF Strip(inj.status) # "" THEN Upper(NormalizeStatusForDisplay(inj.status))
    ELSE "GTD"

\* the status _fetch_one keeps for one injury of a game summary
SummaryChosen(e) ==
    NormalizeStatusForDisplay(IF e.fs # "" THEN e.fs ELSE e.status)

\* player names: name.lower().strip() keys the league feed's by_name map,
\* _normalize_player_name also drops punctuation and the Jr/Sr/II suffixes
NameKey(name) ==
    CASE name = "Al" -> "al" [] name = "Bo" -> "bo" [] name = "Bo Jr." -> "bo jr." [] OTHER -> ""

NormalizePlayerName(name) ==
    CASE name = "Al" -> "al" [] name = "Bo" -> "bo" [] name = "Bo Jr." -> "bo" [] OTHER -> ""

\* str order of the names, for the sort of the detail bundle
NameRank(name) ==
    CASE name = "Al" -> 1 [] name = "Bo" -> 2 [] name = "Bo Jr." -> 3 [] OTHER -> 0

\* a PlayerImpact: per-game averages of one athlete of the roster
Player(id, name, pts, reb, ast, stl, blk) ==
    [athlete_id |-> id, name |-> name, pts |-> pts, reb |-> reb, ast |-> ast,
     stl |-> stl, blk |-> blk]

RawImpact(p) == p.pts + p.ast + p.reb

RECURSIVE SumRaw(_)
SumRaw(players) ==
    IF players = <<>> THEN 0 ELSE RawImpact(Head(players)) + SumRaw(Tail(players))

\* indices of `left` by decreasing key k, equal keys in list order (a stable sort)
RECURSIVE OrderDesc(_, _)
OrderDesc(k, left) ==
    IF left = {} THEN <<>>
    ELSE LET i == CHOOSE i \in left :
                     \A j \in left : k[i] > k[j] \/ (k[i] = k[j] /\ i <= j)
         IN  <<i>> \o OrderDesc(k, left \ {i})

\* the maps _load_espn_league_injuries_by_team builds for one team
LeagueById(league) ==
    [i \in {league[k].id : k \in DOMAIN league} \ {""} |->
        ParseFantasyAbbr((CHOOSE e \in {league[k] : k \in DOMAIN league} : e.id = i).inj)]

LeagueByName(league) ==
    [n \in {NameKey(league[k].name) : k \in DOMAIN league} \ {""} |->
        ParseFantasyAbbr((CHOOSE e \in {league[k] : k \in DOMAIN league} :
                              NameKey(e.name) = n).inj)]

LeagueDetailById(league) ==
    [i \in {league[k].id : k \in DOMAIN league} \ {""} |->
        LET e == CHOOSE e \in {league[k] : k \in DOMAIN league} : e.id = i
        IN  [name |-> e.name, shortComment |-> e.comment]]

\* the per-game report _fetch_one builds for one team
GameById(game) ==
    [i \in {game[k].id : k \in DOMAIN game} \ {""} |->
        SummaryChosen(CHOOSE e \in {game[k] : k \in DOMAIN game} : e.id = i)]


\* _merged_team_status_map: league label first, per-game report for players the
\* league feed lacks, then the league label found by the roster player's name
MergedTeamStatusMap_GameFirst(by_league_id, by_league_name, by_game, players) ==
    LET withGame == DOMAIN by_league_id \cup DOMAIN by_game
        byName == {k \in DOMAIN players :
                      /\ players[k].athlete_id \notin withGame
                      /\ NameKey(players[k].name) \in DOMAIN by_league_name}
        nameOf(p) == (CHOOSE k \in byName : players[k].athlete_id = p)
    IN  [p \in withGame \cup {players[k].athlete_id : k \in byName} |->
            IF p \in DOMAIN by_game THEN Upper(NormalizeStatusForDisplay(by_game[p]))
            ELSE IF p \in DOMAIN by_league_id THEN by_league_id[p]
            ELSE by_league_name[NameKey(players[nameOf(p)].name)]]

MergedTeamStatusMap(by_league_id, by_league_name, by_game, players) ==
    LET withGame == DOMAIN by_league_id \cup DOMAIN by_game
        byName == {k \in DOMAIN players :
                      /\ players[k].athlete_id \notin withGame
                      /\ NameKey(players[k].name) \in DOMAIN by_league_name}
        nameOf(p) == (CHOOSE k \in byName : players[k].athlete_id = p)
    IN  [p \in withGame \cup {players[k].athlete_id : k \in byName} |->
            IF p \in DOMAIN by_league_id THEN by_league_id[p]
            ELSE IF p \in DOMAIN by_game THEN Upper(NormalizeStatusForDisplay(by_game[p]))
            ELSE by_league_name[NameKey(players[nameOf(p)].name)]]

\* insertion order of the merged dict: league feed, then summary, then roster
MergedOrder(league, game, players, merged) ==
    LET RECURSIVE Dedup(_, _)
        Dedup(s, seen) ==
            IF s = <<>> THEN <<>>
            ELSE IF Head(s) \in seen \/ Head(s) \notin DOMAIN merged
                 THEN Dedup(Tail(s), seen)
                 ELSE <<Head(s)>> \o Dedup(Tail(s), seen \cup {Head(s)})
    IN  Dedup([k \in DOMAIN league |-> league[k].id]
              \o [k \in DOMAIN game |-> game[k].id]
              \o [k \in DOMAIN players |-> players[k].athlete_id], {})

StarSum(p) == 10 * p.pts + 7 * p.reb + 7 * p.ast + 10 * p.stl + 10 * p.blk

NoTop == [athlete_id |-> "", name |-> "", ssum |-> 0]

\* top_scorer[team]: the roster's first player of the largest star sum
TopScorer(players) ==
    IF players = <<>> THEN NoTop
    ELSE LET b == CHOOSE i \in DOMAIN players :
                     \A j \in DOMAIN players :
                         StarSum(players[i]) > StarSum(players[j])
                         \/ (StarSum(players[i]) = StarSum(players[j]) /\ i <= j)
         IN  [athlete_id |-> players[b].athlete_id, name |-> players[b].name,
              ssum |-> StarSum(players[b])]

SetMax(S) == CHOOSE x \in S : \A y \in S : y <= x

\* the loop of _team_key_injuries_and_health over the merged map: one entry
\* of the detail bundle per merged player, matched to the roster by athlete
\* id, else by normalised name
TeamEntries(players, merged, order, detail_by_id, target_dow) ==
    [k \in DOMAIN order |->
        LET pid == order[k]
            st_norm == Upper(NormalizeStatusForDisplay(merged[pid]))
            st_display == NormalizeStatusForDisplay(st_norm)
            hasDet == pid \in DOMAIN detail_by_id
            sc == IF hasDet THEN detail_by_id[pid].shortComment ELSE NoComment
            inj_name == IF hasDet THEN detail_by_id[pid].name ELSE ""
            w == WeightForAbbrWithShortComment(st_norm, sc, target_dow)
            byId == {i \in DOMAIN players : players[i].athlete_id = pid}
            byName == {i \in DOMAIN players :
                          /\ inj_name # ""
                          /\ NormalizePlayerName(players[i].name) # ""
                          /\ NormalizePlayerName(players[i].name)
                                = NormalizePlayerName(inj_name)}
            idx == IF byId # {} THEN SetMax(byId)
                   ELSE IF byName # {} THEN SetMax(byName) ELSE 0
        IN  [player_id |-> pid,
             player |-> IF idx = 0 THEN inj_name ELSE players[idx].name,
             status |-> st_display,
             injury_weight |-> w,
             matched |-> idx # 0,
             raw_impact |-> IF idx = 0 THEN 0 ELSE RawImpact(players[idx])]]

RECURSIVE Penalty(_)
Penalty(entries) ==
    IF entries = <<>> THEN 0
    ELSE (IF Head(entries).matched
          THEN Head(entries).injury_weight * Head(entries).raw_impact ELSE 0)
         + Penalty(Tail(entries))

FullHealth == [n |-> 1, d |-> 1]

\* health = clamp(1 - INJURY_OVERALL_IMPORTANCE_WEIGHT * sum(w * share)), share = raw / sum_raw
Health_NoClamp(entries, players) ==
    IF SumRaw(players) = 0 THEN FullHealth
    ELSE LET d == WeightScale * WeightScale * SumRaw(players)
         IN  [n |-> d - INJURY_OVERALL_IMPORTANCE_WEIGHT * Penalty(entries), d |-> d]

Health(entries, players) ==
    IF SumRaw(players) = 0 THEN FullHealth
    ELSE LET d == WeightScale * WeightScale * SumRaw(players)
             n == d - INJURY_OVERALL_IMPORTANCE_WEIGHT * Penalty(entries)
         IN  [n |-> IF n < 0 THEN 0 ELSE IF n > d THEN d ELSE n, d |-> d]

\* the key-injuries text: "name: status" of the matched entries by decreasing
\* raw impact that are key players or the top scorer when out
KeyInjuries(entries, players, top) ==
    LET inj == SelectSeq(entries, LAMBDA e : e.matched)
        ord == OrderDesc([k \in DOMAIN inj |-> inj[k].raw_impact], DOMAIN inj)
        sorted == [k \in DOMAIN ord |-> inj[ord[k]]]
        keep(e) ==
            \/ WeightScale * e.raw_impact
                  >= KEY_INJURY_IMPACT_SHARE_THRESHOLD * SumRaw(players)
            \/ top.athlete_id # "" /\ e.player_id = top.athlete_id
                  /\ StatusPriority(e.status) >= 3
        kept == SelectSeq(sorted, keep)
    IN  [k \in DOMAIN kept |-> [name |-> kept[k].player, status |-> kept[k].status]]

\* the detail bundle, sorted by (no health delta last, larger delta first, name)
DetailBundle(entries) ==
    LET key(e) == (IF e.matched THEN 10000 + 4 * e.injury_weight * e.raw_impact ELSE 0)
                  + 3 - NameRank(e.player)
        ord == OrderDesc([k \in DOMAIN entries |-> key(entries[k])], DOMAIN entries)
    IN  [k \in DOMAIN ord |-> entries[ord[k]]]

\* _team_key_injuries_and_health of one team of one game
TeamKeyInjuriesAndHealth(players, league, game, target_dow) ==
    LET merged == MergedTeamStatusMap(LeagueById(league), LeagueByName(league),
                                      GameById(game), players)
        entries == TeamEntries(players, merged, MergedOrder(league, game, players, merged),
                               LeagueDetailById(league), target_dow)
    IN  IF DOMAIN merged = {}
        THEN [health |-> FullHealth, key_injuries |-> <<>>, detail |-> <<>>]
        ELSE [health |-> Health(entries, players),
              key_injuries |-> KeyInjuries(entries, players, TopScorer(players)),
              detail |-> DetailBundle(entries)]

\* the star factor without the availability of the top player
StarFactor_NoAvailability(players, league, game, target_dow) ==
    LET top == TopScorer(players)
    IN  IF players = <<>> THEN 0
        ELSE 3 * top.ssum * top.ssum * top.ssum * WeightScale

\* _star_factor, as the numerator of STAR_WINPCT_BUMP * (ssum / STAR_DENOM)^3 * availability
\* over the fixed denominator 40 * 500^3 * 10 (STAR_WINPCT_BUMP = 3/40, ssum in tenths)
StarFactor(players, league, game, target_dow) ==
    LET top == TopScorer(players)
        merged == MergedTeamStatusMap(LeagueById(league), LeagueByName(league),
                                      GameById(game), players)
        det == LeagueDetailById(league)
        abbr == IF top.athlete_id \in DOMAIN merged THEN merged[top.athlete_id] ELSE ""
        sc == IF top.athlete_id \in DOMAIN det THEN det[top.athlete_id].shortComment
              ELSE NoComment
        w == WeightForAbbrWithShortComment(abbr, sc, target_dow)
        availability == IF WeightScale - w < 0 THEN 0 ELSE WeightScale - w
    IN  IF players = <<>> THEN 0
        ELSE 3 * top.ssum * top.ssum * top.ssum * availability

\* ---- exact arithmetic on naturals beyond the machine word: little-endian
\* sequences of limbs, for the comparison of win% * health + star factor with 1

Limb == 100 * 100

RECURSIVE BigOf(_)
BigOf(n) == IF n < Limb THEN <<n>> ELSE <<n % Limb>> \o BigOf(n \div Limb)

RECURSIVE MulCarry(_, _, _)
MulCarry(b, k, c) ==
    IF b = <<>> THEN (IF c = 0 THEN <<>> ELSE BigOf(c))
    ELSE LET t == Head(b) * k + c
         IN  <<t % Limb>> \o MulCarry(Tail(b), k, t \div Limb)

BigTimes(b, k) == MulCarry(b, k, 0)

LimbAt(b, i) == IF i <= Len(b) THEN b[i] ELSE 0

RECURSIVE AddCarry(_, _, _, _)
AddCarry(a, b, i, c) ==
    IF i > Len(a) /\ i > Len(b) THEN (IF c = 0 THEN <<>> ELSE <<c>>)
    ELSE LET t == LimbAt(a, i) + LimbAt(b, i) + c
         IN  <<t % Limb>> \o AddCarry(a, b, i + 1, t \div Limb)

BigPlus(a, b) == AddCarry(a, b, 1, 0)

RECURSIVE LeqFrom(_, _, _)
LeqFrom(a, b, i) ==
    IF i = 0 THEN TRUE
    ELSE IF LimbAt(a, i) # LimbAt(b, i) THEN LimbAt(a, i) < LimbAt(b, i)
    ELSE LeqFrom(a, b, i - 1)

BigLeq(a, b) == LeqFrom(a, b, IF Len(a) > Len(b) THEN Len(a) ELSE Len(b))

\* b * 40 * 500^3 * 10, the denominator of the star factor's numerator
TimesStarScale(b) == BigTimes(BigTimes(BigTimes(b, 50000), 10000), 100)

\* win_pct_raw (per mille) * health + star factor, as the numerator over
\* 1000 * health.d * 40 * 500^3 * 10, and that denominator
AdjSum(win, health, star) ==
    BigPlus(TimesStarScale(BigOf(win * health.n)),
            BigTimes(BigTimes(BigOf(star), 1000), health.d))

AdjOne(health) == TimesStarScale(BigOf(1000 * health.d))

NoAdj == [pre |-> [n |-> 0, d |-> 1], star |-> 0]

\* "Adj win%": (win% raw * health + star factor).clip(0.0, 1.0), the value
\* pre.n / pre.d + star / (40 * 500^3 * 10); the summands are never of
\* opposite signs
AdjWinPct(win, health, star) ==
    IF win * health.n <= 0 /\ star <= 0 /\ (win * health.n < 0 \/ star < 0) THEN NoAdj
    ELSE IF BigLeq(AdjOne(health), AdjSum(win, health, star))
    THEN [pre |-> [n |-> 1, d |-> 1], star |-> 0]
    ELSE [pre |-> [n |-> win * health.n, d |-> 1000 * health.d], star |-> star]

\* ---- the reconciler on one team of one game, over the feeds' contents

Inj(abbr, desc, type, st) == [abbr |-> abbr, desc |-> desc, type |-> type, status |-> st]

\* details.fantasyStatus.abbreviation / description, details.type, status of a league injury
LeagueRaw ==
    { Inj("GTD", "", "", ""), Inj("GTD ", "", "", ""), Inj("OUT", "", "", ""),
      Inj("OFS", "", "", ""), Inj("", "Day-To-Day", "", ""), Inj("", "", "Questionable", ""),
      Inj("", "", "", "Out"), Inj("", "", "", "") }

Comments ==
    { NoComment,
      [days |-> {"friday"}, words |-> {}],
      [days |-> {"friday"}, words |-> {"doubtful"}],
      [days |-> {"friday"}, words |-> {"probable", "questionable"}],
      [days |-> {"saturday"}, words |-> {"doubtful"}] }

Roster ==
    << Player("1", "Al", 30, 5, 5, 1, 1), Player("2", "Bo Jr.", 6, 2, 2, 0, 0) >>

\* the league feed's injuries of the team: the roster's first player under his
\* id, and the second under a foreign id, without an id, or a shorter name
LeagueFeeds ==
    { a \o b :
        a \in {<<>>} \cup { <<[id |-> "1", name |-> "Al", inj |-> r, comment |-> c]>> :
                               r \in LeagueRaw, c \in Comments },
        b \in {<<>>} \cup { <<[id |-> i, name |-> n, inj |-> Inj("OUT", "", "", ""),
                               comment |-> NoComment]>> :
                               i \in {"9", ""}, n \in {"Bo Jr.", "Bo"} } }

\* the game summary's injuries of the team (fantasyStatus text, else status)
GameFeeds ==
    { a \o b :
        a \in {<<>>} \cup { <<[id |-> "1", fs |-> f, status |-> "Active"]>> :
                               f \in {"Out", "Day-To-Day", "Questionable", ""} },
        b \in {<<>>, <<[id |-> "2", fs |-> "Doubtful", status |-> "Active"]>>} }

\* a roster whose one player has the whole impact share
SoloRoster == << Player("2", "Bo Jr.", 6, 2, 2, 0, 0) >>

InjuryInputs ==
    [players : {Roster, SoloRoster, <<>>}, league : LeagueFeeds, game : GameFeeds,
     target_dow : {"Friday", ""}, win_raw : {550, 1000}]

NotReconciled ==
    [done |-> FALSE, health |-> FullHealth, key_injuries |-> <<>>, detail |-> <<>>,
     star |-> 0, adj |-> NoAdj]

\* health, key injuries, detail bundle, star factor and adjusted win% of the team's row
Reconcile ==
    /\ ~injOut.done
    /\ LET i == injIn
           r == TeamKeyInjuriesAndHealth(i.players, i.league, i.game, i.target_dow)
           star == StarFactor(i.players, i.league, i.game, i.target_dow)
       IN  injOut' = [done |-> TRUE, health |-> r.health, key_injuries |-> r.key_injuries,
                      detail |-> r.detail, star |-> star,
                      adj |-> AdjWinPct(i.win_raw, r.health, star)]
    /\ UNCHANGED injIn
    /\ UNCHANGED <<storeVars, blendVars, cacheVars, batchVars, scoreVars, clockVars, raceVars, impVars>>

InitInjury ==
    /\ injIn \in InjuryInputs
    /\ injOut = NotReconciled

IdleInjury ==
    /\ injIn = [players |-> <<>>, league |-> <<>>, game |-> <<>>, target_dow |-> "",
                win_raw |-> 0]
    /\ injOut = NotReconciled

NextInjury == Reconcile

------------------------------------------------------------------------------
(* One call of build_watchability_df, step by step: the odds and standings *)
(* requests, the rows, the per-game summary tasks, the league injuries,    *)
(* the freeze of the store, the per-team impact tasks, the scored rows.    *)
(* Win percentages are per mille, importances in hundredths.               *)

\* standings._normalize_team_name: the key a team has in every map
NormalizeTeamName(name) ==
    CASE name = "Boston Celtics" -> "boston celtics"
      [] name \in {"LA Clippers", "Los Angeles Clippers"} -> "los angeles clippers"
      [] name = "Utah Jazz" -> "utah jazz"

TeamKeys == {"boston celtics", "los angeles clippers", "utah jazz"}

\* the matchups as the odds feed names them
HomeTeam(g) == IF g = "g1" THEN "Boston Celtics" ELSE "Utah Jazz"

AwayTeam(g) == "LA Clippers"

HomeKey(g) == NormalizeTeamName(HomeTeam(g))

AwayKey(g) == NormalizeTeamName(AwayTeam(g))

\* "Day" of the rows: strftime("%A") of the local tip time
DayName(g) == "Friday"

\* the odds feeds a call can meet
PresentGame(espn, spread) == [present |-> TRUE, espn |-> espn, spread |-> spread]

OddsFeeds ==
    { [g \in Games |-> IF g = "g1" THEN PresentGame(TRUE, Num(-7))
                                  ELSE PresentGame(TRUE, NoneV)],
      [g \in Games |-> IF g = "g1" THEN PresentGame(TRUE, Num(-7))
                                  ELSE PresentGame(FALSE, Num(-9))],
      [g \in Games |-> IF g = "g1" THEN PresentGame(TRUE, NoneV) ELSE NoGame],
      [g \in Games |-> NoGame] }

\* the standings the ESPN feed can give, by the names it lists
StandingsFeeds ==
    { {"Boston Celtics", "Los Angeles Clippers", "Utah Jazz"}, {"Boston Celtics"} }

WinPctOf(key) ==
    CASE key = "boston celtics" -> 700 [] key = "los angeles clippers" -> 400 [] OTHER -> 550

ImportanceOf(key) ==
    CASE key = "boston celtics" -> 55 [] key = "los angeles clippers" -> 30 [] OTHER -> 100

DEFAULT_WIN_PCT == 500
DEFAULT_IMPORTANCE == 10
IMPORTANCE_FLOOR == 10

GetWinPct_NoDefault(team_name, winpct_keys) ==
    IF NormalizeTeamName(team_name) \in winpct_keys
    THEN WinPctOf(NormalizeTeamName(team_name)) ELSE 0

\* standings.get_win_pct(team_name, winpct_map, default=0.5)
GetWinPct(team_name, winpct_keys) ==
    IF NormalizeTeamName(team_name) \in winpct_keys
    THEN WinPctOf(NormalizeTeamName(team_name)) ELSE DEFAULT_WIN_PCT

\* importance_detail.get(key, {}).get("importance", 0.1)
GetImportance(key, winpct_keys) ==
    IF key \in winpct_keys THEN ImportanceOf(key) ELSE DEFAULT_IMPORTANCE

\* what the feeds hold for each key
SummaryProvider(g) == IF g = "g1" THEN "ESPN" ELSE "Peacock"

SummaryClose(g) == IF g = "g1" THEN Num(-10) ELSE NoneV

SummaryInjuries(g, key) ==
    IF g = "g1" /\ key = "boston celtics"
    THEN <<[id |-> "2", fs |-> "Out", status |-> "Active"]>>
    ELSE <<>>

LeagueInjuries(key) ==
    IF key = "los angeles clippers"
    THEN <<[id |-> "1", name |-> "Al", inj |-> Inj("GTD", "", "", ""),
            comment |-> [days |-> {"friday"}, words |-> {"doubtful"}]]>>
    ELSE <<>>

\* the roster with per-game averages; ESPN's team map lacks the third team
TeamRoster(key) == IF key = "utah jazz" THEN <<>> ELSE Roster

SummaryKey(g) == IF g = "g1" THEN "k1" ELSE "k2"

SUMMARY_TTL == 1

\* ---- the per-game summary task

SummaryIdle ==
    [state |-> "idle", report |-> "none", provider |-> "", close |-> NoneV,
     calls |-> 0, fetches |-> 0]

SummaryPending == [SummaryIdle EXCEPT !.state = "pending"]

FetchOne_NoCatch(g, r) ==
    IF r.outcome = "raise"
    THEN [state |-> "raised", report |-> "none", provider |-> "", close |-> NoneV,
          calls |-> 1, fetches |-> r.fetches]
    ELSE IF r.data # "d1"
    THEN [state |-> "done", report |-> "empty", provider |-> "League Pass",
          close |-> NoneV, calls |-> 1, fetches |-> r.fetches]
    ELSE [state |-> "done", report |-> "report", provider |-> SummaryProvider(g),
          close |-> SummaryClose(g), calls |-> 1, fetches |-> r.fetches]

\* _fetch_one(gid): one cached call; on an exception the defaults; body "d1" is
\* a summary, any other body is JSON that is not an object
FetchOne(g, r) ==
    IF r.outcome = "raise"
    THEN [state |-> "done", report |-> "none", provider |-> "League Pass",
          close |-> NoneV, calls |-> 1, fetches |-> r.fetches]
    ELSE IF r.data # "d1"
    THEN [state |-> "done", report |-> "empty", provider |-> "League Pass",
          close |-> NoneV, calls |-> 1, fetches |-> r.fetches]
    ELSE [state |-> "done", report |-> "report", provider |-> SummaryProvider(g),
          close |-> SummaryClose(g), calls |-> 1, fetches |-> r.fetches]

\* ---- the per-team impact task

TeamIdle == [state |-> "idle", players |-> <<>>, failed |-> FALSE, c |-> "none"]

TeamPending == [TeamIdle EXCEPT !.state = "pending"]

\* how compute_team_player_impacts goes: every request answers, a request of
\* the team map or the roster raises, or the first athlete's stats request
\* raises (the athlete is skipped)
TeamCallOutcomes == {"ok", "raise", "stats"}

\* _fetch_team(team_key, team_name)
FetchTeam(key, c) ==
    IF c = "raise" THEN [state |-> "done", players |-> <<>>, failed |-> TRUE, c |-> c]
    ELSE IF c = "stats" /\ TeamRoster(key) # <<>>
    THEN [state |-> "done", players |-> Tail(TeamRoster(key)), failed |-> FALSE, c |-> c]
    ELSE [state |-> "done", players |-> TeamRoster(key), failed |-> FALSE, c |-> c]

\* fetch_team_id_map: cache key "teams", kept for seven days (one unit of `now`)
TEAMS_TTL == 1

\* the body the teams endpoint answers with
TeamsBody == "d1"

\* the team keys of the map fetch_team_id_map builds from a body: body "d1"
\* names every team, any other body is an older listing without the Clippers
TeamIdMap(data) ==
    IF data = TeamsBody THEN TeamKeys ELSE TeamKeys \ {"los angeles clippers"}

\* what the teams endpoint answers to every request of the call
TeamsNet(answer) == IF answer = "fail" THEN NetFail ELSE [ok |-> TRUE, data |-> TeamsBody]

\* the cache file of "teams" and its temp file "<path>.tmp" (_write_json)
TeamsCache(f) == [file |-> f, initial |-> f, tmp |-> FALSE, net |-> "unknown"]

\* get_json_cached raised inside fetch_team_id_map: _fetch_team gives []
TeamRaised == [state |-> "finished", players |-> <<>>, failed |-> TRUE, c |-> "none"]

\* compute_team_player_impacts once fetch_team_id_map has returned the map of
\* `data`: no team id gives [], else the roster and the athletes' stats (c)
TeamOf(key, data, c) ==
    IF key \notin TeamIdMap(data)
    THEN [state |-> "finished", players |-> <<>>, failed |-> FALSE, c |-> "none"]
    ELSE [FetchTeam(key, c) EXCEPT !.state = "finished"]

\* the players _fetch_team gives for a team when its requests are answered
\* as recorded and no other task runs beside it
TeamAlone(key, tc, c) ==
    LET r == CachedCall(tc.initial, now, TEAMS_TTL, TeamsNet(tc.net), TRUE)
    IN  IF r.outcome = "raise" THEN <<>>
        ELSE TeamOf(key, r.data, IF c = "none" THEN "ok" ELSE c).players

\* ---- the steps of the call

NoOut ==
    [made |-> FALSE, win_home |-> 0, win_away |-> 0, imp_home |-> 0, imp_away |-> 0,
     health_home |-> FullHealth, health_away |-> FullHealth, star_home |-> 0,
     star_away |-> 0, provider |-> "", espn_close |-> NoneV, close |-> NoneV]

NoRows == [g \in Games |-> NoOut]

Pending == [result |-> "none", cause |-> "", rows |-> NoRows]

Raised(cause) == [result |-> "raised", cause |-> cause, rows |-> NoRows]

Returned(cause, rows) == [result |-> "returned", cause |-> cause, rows |-> rows]

\* team_name_by_key: the teams of every game of the odds feed
FeedTeams(f) ==
    {HomeKey(g) : g \in {h \in Games : f[h].present}}
        \cup {AwayKey(g) : g \in {h \in Games : f[h].present}}

\* the scored row of game g: standings joins, the maps the two fan-outs filed
\* (a key not filed gets the default of .get), health and star
\* factor of both teams, and the "Home spread close" column (the other spread
\* columns of the row are those of EvalRow)
RowFrom(g, team_impacts) ==
    LET seen == df[g].gid /\ summaryTask[g].state = "done"
        report(k) == IF seen /\ summaryTask[g].report = "report"
                     THEN SummaryInjuries(g, k) ELSE <<>>
        health(k) == TeamKeyInjuriesAndHealth(team_impacts[k], leagueInjuries[k],
                                              report(k), DayName(g)).health
        star(k) == StarFactor(team_impacts[k], leagueInjuries[k], report(k), DayName(g))
        espn(h) == IF df[h].gid /\ summaryTask[h].state = "done"
                   THEN summaryTask[h].close ELSE NoneV
        close(h) == CloseSpreadRow(df[h].gid, df[h].spread, espn(h), closeStoreFile[h])
    IN  [made |-> TRUE,
         win_home |-> GetWinPct(HomeTeam(g), winpctKeys),
         win_away |-> GetWinPct(AwayTeam(g), winpctKeys),
         imp_home |-> GetImportance(HomeKey(g), winpctKeys),
         imp_away |-> GetImportance(AwayKey(g), winpctKeys),
         health_home |-> health(HomeKey(g)), health_away |-> health(AwayKey(g)),
         star_home |-> star(HomeKey(g)), star_away |-> star(AwayKey(g)),
         provider |-> IF seen THEN summaryTask[g].provider ELSE "League Pass",
         espn_close |-> IF seen THEN summaryTask[g].close ELSE NoneV,
         close |-> ApplyCell(close(g), \E h \in Games : df[h].inDf /\ ~IsNone(close(h)))]

\* team_impacts as the as_completed loop filed it
FiledImpacts == [k \in TeamKeys |->
                    IF teamTask[k].state = "done" THEN teamTask[k].players ELSE <<>>]

RowOf(g) == RowFrom(g, FiledImpacts)

\* fetch_nba_spreads_window: no API key or a failed request raises
FetchOdds ==
    /\ pc = "odds"
    /\ \/ \E cause \in {"no_api_key", "odds_request"} :
            /\ pc' = "done"
            /\ outcome' = Raised(cause)
            /\ UNCHANGED oddsFeed
       \/ \E f \in OddsFeeds :
            /\ oddsFeed' = f
            /\ pc' = "standings"
            /\ UNCHANGED outcome
    /\ UNCHANGED <<includePost, winpctKeys, df, summaryTask, leagueInjuries, teamTask>>
    /\ UNCHANGED <<storeVars, blendVars, cacheVars, injVars, scoreVars, clockVars, raceVars, impVars, teamsCache>>

\* fetch_team_standings_detail_maps: get_json_cached raises when the request
\* fails and no cached copy exists
FetchStandings ==
    /\ pc = "standings"
    /\ \/ /\ pc' = "done"
          /\ outcome' = Raised("standings_request")
          /\ UNCHANGED winpctKeys
       \/ \E names \in StandingsFeeds :
            /\ winpctKeys' = {NormalizeTeamName(n) : n \in names}
            /\ pc' = "rows"
            /\ UNCHANGED outcome
    /\ UNCHANGED <<includePost, oddsFeed, df, summaryTask, leagueInjuries, teamTask>>
    /\ UNCHANGED <<storeVars, blendVars, cacheVars, injVars, scoreVars, clockVars, raceVars, impVars, teamsCache>>

\* the rows, the scoreboard lookup, the include_post filter, the summary fan-out
BuildRows ==
    /\ pc = "rows"
    /\ IF \A g \in Games : ~oddsFeed[g].present
       THEN /\ pc' = "done"
            /\ outcome' = Returned("no_games", NoRows)
            /\ UNCHANGED <<df, summaryTask>>
       ELSE /\ df' = [g \in Games |-> DfRow(oddsFeed, g, includePost)]
            /\ summaryTask' = [g \in Games |->
                    IF DfRow(oddsFeed, g, includePost).inDf /\ DfRow(oddsFeed, g, includePost).gid
                    THEN SummaryPending ELSE SummaryIdle]
            /\ pc' = "summaries"
            /\ UNCHANGED outcome
    /\ UNCHANGED <<includePost, oddsFeed, winpctKeys, leagueInjuries, teamTask>>
    /\ UNCHANGED <<storeVars, blendVars, cacheVars, injVars, scoreVars, clockVars, raceVars, impVars, teamsCache>>

\* max_workers of the two pools (NBA_WATCH_SUMMARY_WORKERS, NBA_WATCH_STAR_WORKERS)
SummaryWorkers == 2

StarWorkers == 2

\* the order in which the futures are submitted: the ids of the frame, the
\* sorted team keys
SummaryOrder == <<"g1", "g2">>

TeamOrder == <<"boston celtics", "los angeles clippers", "utah jazz">>

Running(tasks) == {t \in DOMAIN tasks : tasks[t].state \in {"running", "writing"}}

\* a worker of the pool takes future t: it is the first submitted future that
\* no worker has taken, and fewer than max_workers futures are running
WorkerTakes(tasks, order, t, max_workers) ==
    /\ tasks[t].state = "pending"
    /\ \A i, j \in DOMAIN order :
          (order[j] = t /\ i < j) => tasks[order[i]].state # "pending"
    /\ Cardinality(Running(tasks)) < max_workers

\* the as_completed loop has yielded every future and filed its result, and
\* the with block of the pool is left
AllFiled_NoWait(tasks) == \A t \in DOMAIN tasks : tasks[t].state # "pending"

AllFiled(tasks) == \A t \in DOMAIN tasks : tasks[t].state \in {"idle", "done", "raised"}

\* a worker takes the summary future of game g
SummaryStart(g) ==
    /\ pc = "summaries"
    /\ WorkerTakes(summaryTask, SummaryOrder, g, SummaryWorkers)
    /\ summaryTask' = [summaryTask EXCEPT ![g].state = "running"]
    /\ UNCHANGED <<pc, includePost, oddsFeed, winpctKeys, df, leagueInjuries, teamTask, outcome>>
    /\ UNCHANGED <<storeVars, blendVars, cacheVars, injVars, scoreVars, clockVars, raceVars, impVars, teamsCache>>

\* the worker runs _fetch_one(gid) and the future completes
SummaryTask(g) ==
    /\ pc = "summaries"
    /\ summaryTask[g].state = "running"
    /\ \E net \in NetOutcomes, writeOk \in BOOLEAN :
          /\ (~net.ok => writeOk)
          /\ LET r == CachedCall(cache[SummaryKey(g)], now, SUMMARY_TTL, net, writeOk)
                 res == FetchOne(g, r)
             IN  /\ summaryTask' = [summaryTask EXCEPT ![g] =
                        [res EXCEPT !.state = IF @ = "done" THEN "finished" ELSE @]]
                 /\ cache' = [cache EXCEPT ![SummaryKey(g)] = r.after]
    /\ UNCHANGED <<now, call>>
    /\ UNCHANGED <<pc, includePost, oddsFeed, winpctKeys, df, leagueInjuries, teamTask, outcome>>
    /\ UNCHANGED <<storeVars, blendVars, injVars, scoreVars, clockVars, raceVars, impVars, teamsCache>>

\* the as_completed loop yields the completed future and files its result in
\* watch_providers, close_spreads and injury_reports
SummaryFiled(g) ==
    /\ pc = "summaries"
    /\ summaryTask[g].state = "finished"
    /\ summaryTask' = [summaryTask EXCEPT ![g].state = "done"]
    /\ UNCHANGED <<pc, includePost, oddsFeed, winpctKeys, df, leagueInjuries, teamTask, outcome>>
    /\ UNCHANGED <<storeVars, blendVars, cacheVars, injVars, scoreVars, clockVars, raceVars, impVars, teamsCache>>

\* after the summary fan-out: an exception of a future surfaces at
\* fut.result(); else the league injuries load (a failure gives {}), the
\* closing spreads are frozen and the team fan-out starts
LoadLeagueAndFreeze ==
    /\ pc = "summaries"
    /\ AllFiled(summaryTask)
    /\ IF \E g \in Games : summaryTask[g].state = "raised"
       THEN /\ pc' = "done"
            /\ outcome' = Raised("summary_task")
            /\ UNCHANGED <<leagueInjuries, teamTask, storeVars>>
       ELSE /\ \E loaded \in BOOLEAN :
                  leagueInjuries' = [k \in TeamKeys |->
                                        IF loaded THEN LeagueInjuries(k) ELSE <<>>]
            /\ FreezeStore(df)
            /\ teamTask' = [k \in TeamKeys |->
                                IF k \in FeedTeams(oddsFeed) THEN TeamPending ELSE TeamIdle]
            /\ pc' = "teams"
            /\ UNCHANGED outcome
    /\ UNCHANGED <<includePost, oddsFeed, winpctKeys, df, summaryTask>>
    /\ UNCHANGED <<blendVars, cacheVars, injVars, scoreVars, clockVars, raceVars, impVars, teamsCache>>

\* a worker takes the impact future of team k
TeamStart(k) ==
    /\ pc = "teams"
    /\ WorkerTakes(teamTask, TeamOrder, k, StarWorkers)
    /\ teamTask' = [teamTask EXCEPT ![k].state = "running"]
    /\ UNCHANGED <<pc, includePost, oddsFeed, winpctKeys, df, summaryTask, leagueInjuries, outcome>>
    /\ UNCHANGED <<storeVars, blendVars, cacheVars, injVars, scoreVars, clockVars, raceVars, impVars, teamsCache>>

\* the worker runs _fetch_team(team_key, team_name): fetch_team_id_map reads
\* the cache file of "teams"; on a hit the task goes on to the roster and the
\* future completes; else the request is made, and on an answer _write_json
\* opens and writes "<path>.tmp" (os.replace is the next step of the task)
TeamTask(k) ==
    /\ pc = "teams"
    /\ teamTask[k].state = "running"
    /\ IF CacheHit(teamsCache.file, now, TEAMS_TTL)
       THEN /\ \E c \in TeamCallOutcomes :
                  teamTask' = [teamTask EXCEPT ![k] = TeamOf(k, teamsCache.file.data, c)]
            /\ UNCHANGED teamsCache
       ELSE \E answer \in {"ok", "fail"} :
            /\ teamsCache.net \in {"unknown", answer}
            /\ IF answer = "ok"
               THEN /\ teamsCache' = [teamsCache EXCEPT !.net = answer, !.tmp = TRUE]
                    /\ teamTask' = [teamTask EXCEPT ![k].state = "writing"]
               ELSE LET r == CachedCall(teamsCache.file, now, TEAMS_TTL, NetFail, TRUE)
                    IN  /\ teamsCache' = [teamsCache EXCEPT !.net = answer]
                        /\ IF r.outcome = "raise"
                           THEN teamTask' = [teamTask EXCEPT ![k] = TeamRaised]
                           ELSE \E c \in TeamCallOutcomes :
                                  teamTask' = [teamTask EXCEPT ![k] = TeamOf(k, r.data, c)]
    /\ UNCHANGED <<pc, includePost, oddsFeed, winpctKeys, df, summaryTask, leagueInjuries, outcome>>
    /\ UNCHANGED <<storeVars, blendVars, cacheVars, injVars, scoreVars, clockVars, raceVars, impVars>>

\* os.replace(tmp, path) of the task that wrote the temp file.  The temp file
\* has one name for all tasks: when another task has renamed it already,
\* os.replace raises FileNotFoundError into the except branch of
\* get_json_cached (the stale copy the task read, or the exception)
TeamReplace(k) ==
    /\ pc = "teams"
    /\ teamTask[k].state = "writing"
    /\ LET r == CachedCall(teamsCache.initial, now, TEAMS_TTL, TeamsNet("ok"), teamsCache.tmp)
       IN  /\ teamsCache' = [teamsCache EXCEPT !.tmp = FALSE,
                                               !.file = IF teamsCache.tmp THEN r.after ELSE @]
           /\ IF r.outcome = "raise"
              THEN teamTask' = [teamTask EXCEPT ![k] = TeamRaised]
              ELSE \E c \in TeamCallOutcomes :
                     teamTask' = [teamTask EXCEPT ![k] = TeamOf(k, r.data, c)]
    /\ UNCHANGED <<pc, includePost, oddsFeed, winpctKeys, df, summaryTask, leagueInjuries, outcome>>
    /\ UNCHANGED <<storeVars, blendVars, cacheVars, injVars, scoreVars, clockVars, raceVars, impVars>>

\* the as_completed loop yields the completed future and files its result in
\* team_impacts and top_scorer
TeamFiled(k) ==
    /\ pc = "teams"
    /\ teamTask[k].state = "finished"
    /\ teamTask' = [teamTask EXCEPT ![k].state = "done"]
    /\ UNCHANGED <<pc, includePost, oddsFeed, winpctKeys, df, summaryTask, leagueInjuries, outcome>>
    /\ UNCHANGED <<storeVars, blendVars, cacheVars, injVars, scoreVars, clockVars, raceVars, impVars, teamsCache>>

\* the health, star and score columns, and the return.  On a frame the
\* include_post filter left empty, the column assignments of pandas either
\* go through or raise; both are kept.
ScoreRows ==
    /\ pc = "teams"
    /\ AllFiled(teamTask)
    /\ IF \A g \in Games : ~df[g].inDf
       THEN \E res \in {"returned", "raised"} :
                outcome' = [result |-> res, cause |-> "empty_frame", rows |-> NoRows]
       ELSE outcome' = Returned("", [g \in Games |-> IF df[g].inDf THEN RowOf(g) ELSE NoOut])
    /\ pc' = "done"
    /\ UNCHANGED <<includePost, oddsFeed, winpctKeys, df, summaryTask, leagueInjuries, teamTask>>
    /\ UNCHANGED <<storeVars, blendVars, cacheVars, injVars, scoreVars, clockVars, raceVars, impVars, teamsCache>>

InitBatch ==
    /\ pc = "odds"
    /\ includePost \in BOOLEAN
    /\ oddsFeed = [g \in Games |-> NoGame]
    /\ winpctKeys = {}
    /\ df = [g \in Games |-> NoRow]
    /\ summaryTask = [g \in Games |-> SummaryIdle]
    /\ leagueInjuries = [k \in TeamKeys |-> <<>>]
    /\ teamTask = [k \in TeamKeys |-> TeamIdle]
    /\ teamsCache \in {TeamsCache(AbsentFile), TeamsCache(EntryFile(0, "d2"))}
    /\ outcome = Pending

IdleBatch ==
    /\ pc = "idle"
    /\ includePost = FALSE
    /\ oddsFeed = [g \in Games |-> NoGame]
    /\ winpctKeys = {}
    /\ df = [g \in Games |-> NoRow]
    /\ summaryTask = [g \in Games |-> SummaryIdle]
    /\ leagueInjuries = [k \in TeamKeys |-> <<>>]
    /\ teamTask = [k \in TeamKeys |-> TeamIdle]
    /\ teamsCache = TeamsCache(AbsentFile)
    /\ outcome = Pending

\* the scoreboard, the store and the summary cache the call starts from
InitBatchStore ==
    /\ \/ /\ status \in {[g \in Games |-> "pre"],
                         [g \in Games |-> IF g = "g1" THEN "pre" ELSE "post"],
                         [g \in Games |-> "post"]}
          /\ closeStoreFile = [g \in Games |-> NoneV]
       \/ /\ status = [g \in Games |-> IF g = "g1" THEN "in" ELSE "pre"]
          /\ closeStoreFile = [g \in Games |-> IF g = "g1" THEN Num(-9) ELSE NoneV]
    /\ obs = [g \in Games |-> NoRow]
    /\ lastPreObs = [g \in Games |-> NoneV]
    /\ overwrote = [g \in Games |-> FALSE]
    /\ passes = 0
    /\ storeSaves = 0

InitBatchCache ==
    /\ cache \in {[k \in CacheKeys |-> AbsentFile],
                  [k \in CacheKeys |-> IF k = "k1" THEN EntryFile(0, "d1") ELSE AbsentFile]}
    /\ now \in {0, MaxTime}
    /\ call = NoCall

NextBatch ==
    \/ FetchOdds
    \/ FetchStandings
    \/ BuildRows
    \/ \E g \in Games : SummaryStart(g)
    \/ \E g \in Games : SummaryTask(g)
    \/ \E g \in Games : SummaryFiled(g)
    \/ LoadLeagueAndFreeze
    \/ \E k \in TeamKeys : TeamStart(k)
    \/ \E k \in TeamKeys : TeamTask(k)
    \/ \E k \in TeamKeys : TeamReplace(k)
    \/ \E k \in TeamKeys : TeamFiled(k)
    \/ ScoreRows

------------------------------------------------------------------------------
(* The watchability score of one matchup (core/watchability.py).           *)
(* Win percentages and team quality are exact, per mille.  Closeness, the  *)
(* CES utility and aWI involve fractional powers: each is carried as an    *)
(* interval [lo, hi] in units of 1/FScale that encloses the float the code *)
(* computes (products round down in lo and up in hi, roots are the largest *)
(* and smallest grid points whose power is below and above).  aWI is in    *)
(* hundredths of a point, the same integer as the utility in 1/FScale.     *)

FScale == 10000

SPREAD_CAP == 30                   \* half points
SPREAD_MIN == 1                    \* half points
WIN_MAX == 700                     \* per mille
WIN_MIN == 200                     \* per mille
QUALITY_FLOOR == 100               \* per mille
CLOSENESS_FLOOR == 1000            \* 1/FScale
RELATIVE_QUALITY_MULTIPLIER == 7   \* tenths
CLOSENESS_CURVATURE == 9           \* tenths

Exactly(x) == [lo |-> x, hi |-> x]

MulLo(a, b) == (a * b) \div FScale

MulHi(a, b) == (a * b + FScale - 1) \div FScale

IMul(x, y) == [lo |-> MulLo(x.lo, y.lo), hi |-> MulHi(x.hi, y.hi)]

RECURSIVE PowLo(_, _)
PowLo(a, k) == IF k = 1 THEN a ELSE MulLo(PowLo(a, k - 1), a)

RECURSIVE PowHi(_, _)
PowHi(a, k) == IF k = 1 THEN a ELSE MulHi(PowHi(a, k - 1), a)

IPow(x, k) == [lo |-> PowLo(x.lo, k), hi |-> PowHi(x.hi, k)]

\* the largest y of lo..hi whose k-th power is at most v (rounded up)
RECURSIVE RootLo(_, _, _, _)
RootLo(lo, hi, v, k) ==
    IF lo = hi THEN lo
    ELSE LET mid == (lo + hi + 1) \div 2
         IN  IF PowHi(mid, k) <= v THEN RootLo(mid, hi, v, k) ELSE RootLo(lo, mid - 1, v, k)

\* the smallest y of lo..hi whose k-th power is at least v (rounded down)
RECURSIVE RootHi(_, _, _, _)
RootHi(lo, hi, v, k) ==
    IF lo = hi THEN lo
    ELSE LET mid == (lo + hi) \div 2
         IN  IF PowLo(mid, k) >= v THEN RootHi(lo, mid, v, k) ELSE RootHi(mid + 1, hi, v, k)

\* x ** (1/k) for x in [0, 1]
IRoot(x, k) == [lo |-> RootLo(0, FScale, x.lo, k), hi |-> RootHi(0, FScale, x.hi, k)]

\* _clamp01_floor on an interval
IClampFloor(x, floor) ==
    LET c(v) == IF v < floor THEN floor ELSE IF v > FScale THEN FScale ELSE v
    IN  [lo |-> c(x.lo), hi |-> c(x.hi)]

\* team_quality(w1, w2), per mille: (avg - win_min) / (win_max - win_min)
\* clamped to [floor, 1]; exact on win percentages that are multiples of 0.05
TeamQuality_NoFloor(w1, w2) ==
    LET twice == (w1 + w2) - 2 * WIN_MIN
        span2 == 2 * (WIN_MAX - WIN_MIN)
        q == (1000 * twice) \div span2
    IN  IF q > 1000 THEN 1000 ELSE q

TeamQuality(w1, w2) ==
    LET twice == (w1 + w2) - 2 * WIN_MIN
        span2 == 2 * (WIN_MAX - WIN_MIN)
        q == (1000 * twice) \div span2
    IN  IF q < QUALITY_FLOOR THEN QUALITY_FLOOR ELSE IF q > 1000 THEN 1000 ELSE q

\* closeness(abs_spread): ((cap - min(x, cap)) / (cap - spread_min)) ** 0.9
\* clamped to [floor, 1]; None gives the floor; NaN survives min() and the
\* power and is turned into 1.0 by min(1.0, nan)
Closeness_NoCurvature(abs_spread) ==
    IF IsNone(abs_spread) THEN Exactly(CLOSENESS_FLOOR)
    ELSE IF IsNaN(abs_spread) THEN Exactly(FScale)
    ELSE LET x == IF abs_spread.v < SPREAD_CAP THEN abs_spread.v ELSE SPREAD_CAP
             num == SPREAD_CAP - x
             den == SPREAD_CAP - SPREAD_MIN
             r == [lo |-> (num * FScale) \div den, hi |-> (num * FScale + den - 1) \div den]
         IN  IF num >= den THEN Exactly(FScale) ELSE IClampFloor(r, CLOSENESS_FLOOR)

Closeness(abs_spread) ==
    IF IsNone(abs_spread) THEN Exactly(CLOSENESS_FLOOR)
    ELSE IF IsNaN(abs_spread) THEN Exactly(FScale)
    ELSE LET x == IF abs_spread.v < SPREAD_CAP THEN abs_spread.v ELSE SPREAD_CAP
             num == SPREAD_CAP - x
             den == SPREAD_CAP - SPREAD_MIN
             r == [lo |-> (num * FScale) \div den, hi |-> (num * FScale + den - 1) \div den]
         IN  IF num >= den THEN Exactly(FScale)
             ELSE IClampFloor(IPow(IRoot(r, 10), CLOSENESS_CURVATURE), CLOSENESS_FLOOR)

\* uavg(q, c) for SIGMA = 0.4, rho = (sigma - 1) / sigma = -3/2:
\*   u = (m * q**rho + (1 - m) * c**rho) ** (1/rho), that is
\*   u ** (3/2) = Q * C / (m * C + (1 - m) * Q) with Q = q ** (3/2), C = c ** (3/2)
Uavg(q, c) ==
    LET m == RELATIVE_QUALITY_MULTIPLIER
        Q == IMul(q, IRoot(q, 2))
        C == IMul(c, IRoot(c, 2))
        den(x, y) == m * x + (10 - m) * y
        u32 == [lo |-> (10 * Q.lo * C.lo) \div den(C.hi, Q.hi),
                hi |-> (10 * Q.hi * C.hi + den(C.lo, Q.lo) - 1) \div den(C.lo, Q.lo)]
        u == IPow(IRoot(IClampFloor(u32, 0), 3), 2)
    IN  u

\* awi_label(awi), awi in hundredths of a point
AwiLabel_StrictStrong(x) ==
    IF x >= 9000 THEN "Must Watch"
    ELSE IF x > 7500 THEN "Strong Watch"
    ELSE IF x >= 5000 THEN "Watchable"
    ELSE IF x >= 2500 THEN "Skippable"
    ELSE "Hard Skip"

AwiLabel(x) ==
    IF x >= 9000 THEN "Must Watch"
    ELSE IF x >= 7500 THEN "Strong Watch"
    ELSE IF x >= 5000 THEN "Watchable"
    ELSE IF x >= 2500 THEN "Skippable"
    ELSE "Hard Skip"

\* compute_watchability(w1, w2, abs_spread); the label is the one of every
\* aWI of the interval
ComputeWatchability(w1, w2, abs_spread) ==
    LET q == TeamQuality(w1, w2)
        c == Closeness(abs_spread)
        u == Uavg(Exactly(10 * q), c)
    IN  [team_quality |-> q, closeness |-> c, uavg |-> u, awi |-> u,
         labels |-> {AwiLabel(u.lo), AwiLabel(u.hi)}]

\* ---- the score of one matchup, and the label of one aWI, over a grid of inputs

WinPcts == {50 * k : k \in 0..20}

AbsSpreads == {NoneV, NaNV} \cup {Num(s) : s \in {0, 1, 10, 29, 30, 40}}

AwiThresholds == {2500, 5000, 7500, 9000}

AwiInputs == {25 * k : k \in 0..400} \cup {t - 1 : t \in AwiThresholds}

ScoreInputs ==
    [op : {"watch"}, w1 : WinPcts, w2 : WinPcts, abs_spread : AbsSpreads, awi : {0}]
        \cup [op : {"label"}, w1 : {0}, w2 : {0}, abs_spread : {NoneV}, awi : AwiInputs]

NotScored ==
    [done |-> FALSE, team_quality |-> 0, closeness |-> Exactly(0), uavg |-> Exactly(0),
     awi |-> Exactly(0), labels |-> {}]

Watch ==
    /\ ~scoreOut.done
    /\ scoreIn.op = "watch"
    /\ scoreOut' = [done |-> TRUE]
                      @@ ComputeWatchability(scoreIn.w1, scoreIn.w2, scoreIn.abs_spread)
    /\ UNCHANGED scoreIn
    /\ UNCHANGED <<storeVars, blendVars, cacheVars, injVars, batchVars, clockVars, raceVars, impVars>>

Label ==
    /\ ~scoreOut.done
    /\ scoreIn.op = "label"
    /\ scoreOut' = [NotScored EXCEPT !.done = TRUE, !.awi = Exactly(scoreIn.awi),
                                     !.labels = {AwiLabel(scoreIn.awi)}]
    /\ UNCHANGED scoreIn
    /\ UNCHANGED <<storeVars, blendVars, cacheVars, injVars, batchVars, clockVars, raceVars, impVars>>

InitScore ==
    /\ scoreIn \in ScoreInputs
    /\ scoreOut = NotScored

IdleScore ==
    /\ scoreIn = [op |-> "idle", w1 |-> 0, w2 |-> 0, abs_spread |-> NoneV, awi |-> 0]
    /\ scoreOut = NotScored

NextScore == Watch \/ Label

------------------------------------------------------------------------------
(* The live clock of one game: _format_live_clock (core/schedule_espn.py),  *)
(* _parse_time_remaining, _minutes_remaining_from_time_remaining and        *)
(* _live_weight_a.  A string is a sequence of one-character strings; None   *)
(* is NoText.  Minutes remaining are kept in seconds (t = 48.0 is 2880),    *)
(* the live weight in units of 1/ClockScale.                                *)

NoText == [k |-> "none", s |-> <<>>]

Text(s) == [k |-> "str", s |-> s]

DigitChars == <<"0", "1", "2", "3", "4", "5", "6", "7", "8", "9">>

IsDigit(c) == \E d \in DOMAIN DigitChars : DigitChars[d] = c

DigitVal(c) == (CHOOSE d \in DOMAIN DigitChars : DigitChars[d] = c) - 1

\* str(n) of an integer 0..99
StrOfInt(n) ==
    IF n < 10 THEN <<DigitChars[n + 1]>>
    ELSE <<DigitChars[(n \div 10) + 1], DigitChars[(n % 10) + 1]>>

\* str.upper() on the characters of the model
UpperChar(c) == IF c = "d" THEN "D" ELSE IF c = "s" THEN "S" ELSE IF c = "q" THEN "Q" ELSE c

UpperText(s) == [i \in DOMAIN s |-> UpperChar(s[i])]

RECURSIVE StripText(_)
\* str.strip()
StripText(s) ==
    IF s = <<>> THEN s
    ELSE IF Head(s) = " " THEN StripText(Tail(s))
    ELSE IF s[Len(s)] = " " THEN StripText(SubSeq(s, 1, Len(s) - 1))
    ELSE s

\* _format_live_clock(period, display_clock); period is None or an integer
FormatLiveClock(period, display_clock) ==
    IF display_clock.k = "none" \/ display_clock.s = <<>> THEN NoText
    ELSE IF IsNone(period) \/ period.v = 0 THEN display_clock
    ELSE IF period.v <= 4
    THEN Text(display_clock.s \o <<" ", "Q">> \o StrOfInt(period.v))
    ELSE IF period.v - 4 = 1
    THEN Text(display_clock.s \o <<" ", "O", "T">>)
    ELSE Text(display_clock.s \o <<" ">> \o StrOfInt(period.v - 4) \o <<"O", "T">>)

\* One item of a regular expression: between min and max characters of a set
Item(chars, min, max) == [chars |-> chars, min |-> min, max |-> max]

\* the longest string the pattern is applied to
MaxTextLen == 12

\* The pattern of _parse_time_remaining as re compiles it.  In the raw string
\* r"(\\d{1,2})[:.](\\d{1,2})\\s*Q(\\d)" each "\\" is an escaped backslash:
\* group 1 is a backslash and one or two letters d, then ':' or '.', group 2
\* likewise, a backslash and any number of letters s, 'Q', and group 3 a
\* backslash and the letter d.
TimePattern ==
    [items |-> << Item({"\\"}, 1, 1), Item({"d"}, 1, 2), Item({":", "."}, 1, 1),
                  Item({"\\"}, 1, 1), Item({"d"}, 1, 2),
                  Item({"\\"}, 1, 1), Item({"s"}, 0, MaxTextLen), Item({"Q"}, 1, 1),
                  Item({"\\"}, 1, 1), Item({"d"}, 1, 1) >>,
     groups |-> << <<1, 2>>, <<4, 5>>, <<9, 10>> >>]

RECURSIVE MatchAt(_, _, _)
\* the items match a prefix of s[i..]
MatchAt(items, s, i) ==
    IF items = <<>> THEN TRUE
    ELSE LET it == Head(items)
         IN  \E n \in it.min..it.max :
                /\ i + n - 1 <= Len(s)
                /\ \A j \in i..(i + n - 1) : s[j] \in it.chars
                /\ MatchAt(Tail(items), s, i + n)

RECURSIVE Spans(_, _, _)
\* the start of each item in the match at i (greedy quantifiers), and the end
Spans(items, s, i) ==
    IF items = <<>> THEN <<i>>
    ELSE LET it == Head(items)
             ok(n) == /\ i + n - 1 <= Len(s)
                      /\ \A j \in i..(i + n - 1) : s[j] \in it.chars
                      /\ MatchAt(Tail(items), s, i + n)
             n == CHOOSE m \in it.min..it.max :
                      ok(m) /\ \A l \in it.min..it.max : ok(l) => l <= m
         IN  <<i>> \o Spans(Tail(items), s, i + n)

\* re.search(pattern, s): the groups of the leftmost match, or no match
Search(pat, s) ==
    LET starts == {i \in 1..(Len(s) + 1) : MatchAt(pat.items, s, i)}
    IN  IF starts = {} THEN [found |-> FALSE, group |-> <<>>]
        ELSE LET i == CHOOSE a \in starts : \A b \in starts : a <= b
                 sp == Spans(pat.items, s, i)
             IN  [found |-> TRUE,
                  group |-> [g \in DOMAIN pat.groups |->
                                SubSeq(s, sp[pat.groups[g][1]], sp[pat.groups[g][2] + 1] - 1)]]

\* int(text) succeeds on decimal digits
IsInt(t) == t # <<>> /\ \A i \in DOMAIN t : IsDigit(t[i])

RECURSIVE IntOf(_)
IntOf(t) == IF t = <<>> THEN 0 ELSE 10 * IntOf(SubSeq(t, 1, Len(t) - 1)) + DigitVal(t[Len(t)])

NotParsed == [raised |-> FALSE, q |-> NoneV, sec |-> NoneV]

\* _parse_time_remaining(tr) under a pattern: (quarter, seconds left in the
\* quarter), (None, None), or the ValueError of int()
ParseWith(pat, tr) ==
    IF tr.k = "none" THEN NotParsed
    ELSE LET s == UpperText(StripText(tr.s))
             m == Search(pat, s)
         IN  IF s = <<>> THEN NotParsed
             ELSE IF ~m.found THEN NotParsed
             ELSE IF \E g \in DOMAIN m.group : ~IsInt(m.group[g])
             THEN [raised |-> TRUE, q |-> NoneV, sec |-> NoneV]
             ELSE [raised |-> FALSE, q |-> Num(IntOf(m.group[3])),
                   sec |-> Num(IntOf(m.group[1]) * 60 + IntOf(m.group[2]))]

ParseTimeRemaining(tr) == ParseWith(TimePattern, tr)

Max0(x) == IF x < 0 THEN 0 ELSE x

\* _minutes_remaining_from_time_remaining(tr), in seconds:
\* max(0, 4 - q) * 12.0 + sec / 60.0
MinutesRemainingFromTimeRemaining(tr) ==
    LET p == ParseTimeRemaining(tr)
    IN  IF IsNone(p.q) \/ IsNone(p.sec) THEN NoneV
        ELSE Num(Max0(4 - p.q.v) * 12 * 60 + p.sec.v)

\* one unit of the live weight of a clock: a = 1.0 is ClockScale
ClockScale == 2880

\* _live_weight_a(t) with t in seconds / 60 and a in units of 1/ClockScale
LiveWeightOfClock(mr) ==
    IF IsNone(mr) THEN 0
    ELSE IF IsNaN(mr) THEN ClockScale
    ELSE LET a == ClockScale - mr.v
         IN  IF a < 0 THEN 0 ELSE IF a > ClockScale THEN ClockScale ELSE a

\* the displayClock texts of the scoreboard: M:SS, "0.0", "", a text of the
\* pattern's own letters, and no clock
ClockOf(m, ss) == Text(StrOfInt(m) \o <<":">> \o (IF ss < 10 THEN <<"0">> ELSE <<>>) \o StrOfInt(ss))

DisplayClocks ==
    {ClockOf(m, ss) : m \in {0, 5, 12}, ss \in {0, 32}}
        \cup {Text(<<"0", ".", "0">>), Text(<<>>), NoText,
              Text(<<"\\", "d", ":", "\\", "d", "Q", "\\", "d">>)}

Periods == {NoneV} \cup {Num(p) : p \in 0..6}

ClockInputs == [status : {"pre", "in", "post"}, period : Periods, display_clock : DisplayClocks]

NoClock == [done |-> FALSE, raised |-> FALSE, tr |-> NoText, mr |-> NoneV, a |-> 0]

\* the game's time_remaining (fetch_games_for_date), and the row's "Minutes
\* remaining" and "a(t)" cells
ClockRow ==
    /\ ~clockOut.done
    /\ LET tr == IF clockIn.status = "in"
                 THEN FormatLiveClock(clockIn.period, clockIn.display_clock) ELSE NoText
           mr == MinutesRemainingFromTimeRemaining(tr)
       IN  clockOut' = IF ParseTimeRemaining(tr).raised
                       THEN [NoClock EXCEPT !.done = TRUE, !.raised = TRUE, !.tr = tr]
                       ELSE [done |-> TRUE, raised |-> FALSE, tr |-> tr, mr |-> mr,
                             a |-> LiveWeightOfClock(mr)]
    /\ UNCHANGED clockIn
    /\ UNCHANGED <<storeVars, blendVars, cacheVars, injVars, batchVars, scoreVars, raceVars, impVars>>

InitClock ==
    /\ clockIn \in ClockInputs
    /\ clockOut = NoClock

IdleClock ==
    /\ clockIn = [status |-> "pre", period |-> NoneV, display_clock |-> NoText]
    /\ clockOut = NoClock

NextClock == ClockRow

------------------------------------------------------------------------------
(* Concurrent calls of get_json_cached on one cache key (core/http_cache.py) *)
(* by the threads of a worker pool, step by step: _read_json, the request,  *)
(* and the three steps of _write_json (open the temp file, dump and close,  *)
(* os.replace).  The directory maps the names path and "<path>.tmp" to      *)
(* files; a file being written holds no complete JSON text (it reads as     *)
(* UnreadableFile) until its writer has dumped and closed it.               *)

Threads == {"t1", "t2", "t3"}

\* at most one file per open() plus the file the key starts with
MaxFiles == 4

NoFile == 0

KEY_TTL == 1

\* what the endpoint answers to the requests of the threads
KeyBody == "d1"

NoResult == [outcome |-> "none", data |-> "", from_cache |-> FALSE]

\* a thread before its call: cached is what _read_json gave, saw the kind of
\* file that read met, fd the file its open() of the temp name gave
ThreadStart ==
    [pc |-> "read", cached |-> AbsentFile, saw |-> "none", fetched |-> FALSE,
     fd |-> NoFile, result |-> NoResult]

\* the except branch of get_json_cached: the stale copy, or the exception
ExceptBranch(cached) ==
    IF StaleFallback(cached)
    THEN [outcome |-> "return", data |-> cached.data, from_cache |-> TRUE]
    ELSE [outcome |-> "raise", data |-> "", from_cache |-> FALSE]

\* the file the name path refers to
AtPath(d) == IF d.path = NoFile THEN AbsentFile ELSE d.file[d.path]

\* cached = _read_json(path), and the return of a fresh copy
ReadStep(t) ==
    /\ thr[t].pc = "read"
    /\ LET f == AtPath(disk)
           cached == IF ReadJson(f) THEN f ELSE AbsentFile
       IN  thr' = [thr EXCEPT ![t] =
                IF CacheHit(f, now, KEY_TTL)
                THEN [@ EXCEPT !.pc = "done", !.cached = cached, !.saw = f.kind,
                               !.result = [outcome |-> "return", data |-> f.data,
                                           from_cache |-> TRUE]]
                ELSE [@ EXCEPT !.pc = "request", !.cached = cached, !.saw = f.kind]]
    /\ UNCHANGED <<disk, answers>>
    /\ UNCHANGED <<storeVars, blendVars, cacheVars, injVars, batchVars, scoreVars, clockVars, impVars>>

\* requests.get, raise_for_status, r.json(): an answer, or an exception that
\* goes to the except branch
RequestStep(t) ==
    /\ thr[t].pc = "request"
    /\ IF answers
       THEN thr' = [thr EXCEPT ![t].pc = "open", ![t].fetched = TRUE]
       ELSE thr' = [thr EXCEPT ![t].pc = "done", ![t].result = ExceptBranch(thr[t].cached)]
    /\ UNCHANGED <<disk, answers>>
    /\ UNCHANGED <<storeVars, blendVars, cacheVars, injVars, batchVars, scoreVars, clockVars, impVars>>

\* a file number no name and no thread refers to
FreeFile(d) ==
    CHOOSE i \in 1..MaxFiles :
        /\ i # d.path /\ i # d.tmp /\ \A u \in Threads : thr[u].fd # i
        /\ \A j \in 1..MaxFiles :
              (j # d.path /\ j # d.tmp /\ \A u \in Threads : thr[u].fd # j) => i <= j

\* open(tmp, "w"): creates the temp file, or truncates the one of that name
OpenStep(t) ==
    /\ thr[t].pc = "open"
    /\ LET i == IF disk.tmp = NoFile THEN FreeFile(disk) ELSE disk.tmp
       IN  /\ disk' = [disk EXCEPT !.tmp = i, !.file[i] = UnreadableFile]
           /\ thr' = [thr EXCEPT ![t].pc = "dump", ![t].fd = i]
    /\ UNCHANGED answers
    /\ UNCHANGED <<storeVars, blendVars, cacheVars, injVars, batchVars, scoreVars, clockVars, impVars>>

\* json.dump(payload, f) and the close of the with block.  When another
\* thread holds the same file open for writing (it opened the same temp
\* name), the two texts are written over each other: the file ends as this
\* thread's text or as no JSON text.
DumpStep(t) ==
    /\ thr[t].pc = "dump"
    /\ \E garbled \in BOOLEAN :
          /\ garbled => \E u \in Threads \ {t} : thr[u].fd = thr[t].fd
          /\ disk' = [disk EXCEPT !.file[thr[t].fd] =
                          IF garbled THEN UnreadableFile ELSE EntryFile(now, KeyBody)]
    /\ thr' = [thr EXCEPT ![t].pc = "replace"]
    /\ UNCHANGED answers
    /\ UNCHANGED <<storeVars, blendVars, cacheVars, injVars, batchVars, scoreVars, clockVars, impVars>>

\* os.replace(tmp, path) and the return of the fetched data; with the temp
\* name gone (another thread renamed it) FileNotFoundError goes to the
\* except branch
ReplaceStep(t) ==
    /\ thr[t].pc = "replace"
    /\ IF disk.tmp # NoFile
       THEN /\ disk' = [disk EXCEPT !.path = disk.tmp, !.tmp = NoFile]
            /\ thr' = [thr EXCEPT ![t].pc = "done", ![t].fd = NoFile,
                          ![t].result = [outcome |-> "return", data |-> KeyBody,
                                         from_cache |-> FALSE]]
       ELSE /\ UNCHANGED disk
            /\ thr' = [thr EXCEPT ![t].pc = "done", ![t].fd = NoFile,
                          ![t].result = ExceptBranch(thr[t].cached)]
    /\ UNCHANGED answers
    /\ UNCHANGED <<storeVars, blendVars, cacheVars, injVars, batchVars, scoreVars, clockVars, impVars>>

\* the directory a batch starts from: no cache file, or a complete entry
DiskOf(f) ==
    [path |-> IF f = AbsentFile THEN NoFile ELSE 1, tmp |-> NoFile,
     file |-> [i \in 1..MaxFiles |-> IF i = 1 THEN f ELSE AbsentFile]]

InitRace ==
    /\ thr = [t \in Threads |-> ThreadStart]
    /\ disk \in {DiskOf(AbsentFile), DiskOf(EntryFile(0, "d2")), DiskOf(EntryFile(MaxTime, "d2"))}
    /\ answers \in BOOLEAN

IdleRace ==
    /\ thr = [t \in Threads |-> [ThreadStart EXCEPT !.pc = "idle"]]
    /\ disk = DiskOf(AbsentFile)
    /\ answers = FALSE

NextRace ==
    \/ \E t \in Threads : ReadStep(t)
    \/ \E t \in Threads : RequestStep(t)
    \/ \E t \in Threads : OpenStep(t)
    \/ \E t \in Threads : DumpStep(t)
    \/ \E t \in Threads : ReplaceStep(t)

------------------------------------------------------------------------------
(* Importance of the teams from the standings detail map (importance.py);    *)
(* games behind in half games, importance in hundredths                       *)

IMPORTANCE_CEILING == 100

Conferences == {"east", "west"}

\* one item of detail_map: the team key and its conference, seed and games behind
Detail(team, conf, seed, gb) ==
    [team |-> team, conference |-> conf, playoff_seed |-> seed, games_behind |-> gb]

\* by_conf[conf] after the first n items of detail_map: seed -> (team, gb),
\* a later item of the same seed replacing an earlier one
RECURSIVE SeedMap(_, _, _)
SeedMap(detail, conf, n) ==
    IF n = 0 THEN [s \in {} |-> [team |-> "", gb |-> 0]]
    ELSE LET prev == SeedMap(detail, conf, n - 1)
             d == detail[n]
         IN  IF d.conference = conf /\ IsNum(d.playoff_seed) /\ IsNum(d.games_behind)
             THEN [s \in DOMAIN prev \cup {d.playoff_seed.v} |->
                      IF s = d.playoff_seed.v
                      THEN [team |-> d.team, gb |-> d.games_behind.v] ELSE prev[s]]
             ELSE prev

GbAt(seed_map, seed) ==
    IF seed \in DOMAIN seed_map THEN Num(seed_map[seed].gb) ELSE NoneV

AbsDelta(a, b) == IF a >= b THEN a - b ELSE b - a

\* _min_abs_delta(gb, a, b)
MinAbsDelta(gb, a, b) ==
    LET deltas == {AbsDelta(x.v, gb) : x \in {y \in {a, b} : IsNum(y)}}
    IN  IF deltas = {} THEN NoneV
        ELSE Num(CHOOSE m \in deltas : \A o \in deltas : m <= o)

\* _clamp(x, lo, hi)
Clamp(x, lo, hi) ==
    LET least == IF hi <= x THEN hi ELSE x
    IN  IF lo >= least THEN lo ELSE least

FloorDetail ==
    [importance |-> IMPORTANCE_FLOOR, seed_radius |-> NoneV, playoff_radius |-> NoneV]

\* the detail of the team that holds `seed` in the conference's seed map
ImportanceDetail(seed_map, seed) ==
    LET gb == seed_map[seed].gb
        seed_radius == MinAbsDelta(gb, GbAt(seed_map, seed - 1), GbAt(seed_map, seed + 1))
        playoff_radius == MinAbsDelta(gb, GbAt(seed_map, 6), GbAt(seed_map, 10))
        total_radius == IF seed_radius.v + playoff_radius.v < 0 THEN 0
                        ELSE seed_radius.v + playoff_radius.v
    IN  [importance |->
            IF IsNone(seed_radius) \/ IsNone(playoff_radius) THEN IMPORTANCE_FLOOR
            ELSE Clamp(5 * (20 - total_radius), IMPORTANCE_FLOOR, IMPORTANCE_CEILING),
         seed_radius |-> seed_radius,
         playoff_radius |-> playoff_radius]

\* compute_importance_detail_map(detail_map), detail_map in its dict order
ComputeImportanceDetailMap(detail) ==
    LET seed_map(c) == SeedMap(detail, c, Len(detail))
        slots == UNION {{<<c, s>> : s \in DOMAIN seed_map(c)} : c \in Conferences}
        held(t) == {cs \in slots : seed_map(cs[1])[cs[2]].team = t}
    IN  [t \in {detail[k].team : k \in DOMAIN detail} |->
            IF held(t) = {} THEN FloorDetail
            ELSE LET cs == CHOOSE x \in held(t) : TRUE
                 IN  ImportanceDetail(seed_map(cs[1]), cs[2])]

\* the standings of three teams, as the feed lists them
DetailMaps ==
    { <<a, b, c>> :
        a \in { Detail("boston celtics", cf, sd, gb) :
                  cf \in {"east", "west", ""},
                  sd \in {NoneV, Num(5), Num(6), Num(10)},
                  gb \in {NoneV, Num(0), Num(3), Num(24)} },
        b \in { Detail("new york knicks", cf, sd, gb) :
                  cf \in {"east", "west"},
                  sd \in {Num(5), Num(6), Num(7)},
                  gb \in {Num(0), Num(2), Num(30)} },
        c \in { Detail("miami heat", "east", sd, gb) :
                  sd \in {Num(6), Num(10)}, gb \in {Num(1), Num(8)} } }

NotComputed == [done |-> FALSE, map |-> <<>>]

ComputeImportance ==
    /\ ~impOut.done
    /\ impOut' = [done |-> TRUE, map |-> ComputeImportanceDetailMap(impIn)]
    /\ UNCHANGED impIn
    /\ UNCHANGED <<storeVars, blendVars, cacheVars, injVars, batchVars, scoreVars, clockVars,
                   raceVars>>

InitImp ==
    /\ impIn \in DetailMaps
    /\ impOut = NotComputed

IdleImp ==
    /\ impIn = <<>>
    /\ impOut = NotComputed

NextImp == ComputeImportance

------------------------------------------------------------------------------
(* Specifications *)

\* build passes over the closing-spread store
Init == InitStore /\ IdleBlend /\ InitCache /\ IdleInjury /\ IdleBatch /\ IdleScore /\ IdleClock /\ IdleRace /\ IdleImp

Next == NextStore

Spec == Init /\ [][Next]_vars

\* the spread blend of one row, over all rows
InitRows == InitBlend /\ InitStore /\ InitCache /\ IdleInjury /\ IdleBatch /\ IdleScore /\ IdleClock /\ IdleRace /\ IdleImp

SpecBlend == InitRows /\ [][NextBlend]_vars

\* calls of get_json_cached, one at a time
InitCalls == InitCache /\ InitStore /\ IdleBlend /\ IdleInjury /\ IdleBatch /\ IdleScore /\ IdleClock /\ IdleRace /\ IdleImp

SpecCache == InitCalls /\ [][NextCache]_vars

\* the injury reconciler on one team, over all feed contents
InitTeams == InitInjury /\ InitStore /\ IdleBlend /\ InitCache /\ IdleBatch /\ IdleScore /\ IdleClock /\ IdleRace /\ IdleImp

SpecInjury == InitTeams /\ [][NextInjury]_vars

\* one call of build_watchability_df, over feeds, failures and task orders
InitCall == InitBatch /\ InitBatchStore /\ InitBatchCache /\ IdleBlend /\ IdleInjury /\ IdleScore /\ IdleClock /\ IdleRace /\ IdleImp

SpecBatch == InitCall /\ [][NextBatch]_vars

\* the score of one matchup and the label of one aWI, over a grid of inputs
InitScores ==
    InitScore /\ InitStore /\ IdleBlend /\ InitCache /\ IdleInjury /\ IdleBatch /\ IdleClock
        /\ IdleRace /\ IdleImp

SpecScore == InitScores /\ [][NextScore]_vars

\* the live clock of one game, over statuses, periods and clock texts
InitClocks ==
    InitClock /\ InitStore /\ IdleBlend /\ InitCache /\ IdleInjury /\ IdleBatch /\ IdleScore
        /\ IdleRace /\ IdleImp

SpecClock == InitClocks /\ [][NextClock]_vars

\* three threads calling get_json_cached on one key, over all interleavings
InitRaces ==
    /\ InitRace /\ InitStore /\ IdleBlend /\ IdleInjury /\ IdleBatch /\ IdleScore /\ IdleClock
    /\ IdleImp
    /\ cache = [k \in CacheKeys |-> AbsentFile]
    /\ now = MaxTime
    /\ call = NoCall

SpecRace == InitRaces /\ [][NextRace]_vars

\* compute_importance_detail_map, over the standings of three teams
InitImps ==
    /\ InitImp /\ InitStore /\ IdleBlend /\ InitCache /\ IdleInjury /\ IdleBatch /\ IdleScore
    /\ IdleClock /\ IdleRace

SpecImportance == InitImps /\ [][NextImp]_vars

------------------------------------------------------------------------------
(* C1: freeze-once.  A pass changes close_store[game_id] only if the pass   *)
(* observes the game with status 'pre', a non-empty game id and a current  *)
(* home spread; no entry is ever deleted.                                  *)
C1_FreezeOnce ==
    [][\A g \in Games :
          /\ (closeStoreFile'[g] # closeStoreFile[g]) =>
                (obs'[g].inDf /\ obs'[g].status = "pre" /\ obs'[g].gid
                 /\ IsNum(obs'[g].spreadRaw))
          /\ ~IsNone(closeStoreFile[g]) => ~IsNone(closeStoreFile'[g])]_vars

C3_LiveBlend ==
    (blendOut.done /\ blendIn.status = "in" /\ IsNum(blendIn.spreadRaw) /\ IsNum(blendOut.close))
    => LET cur == blendIn.spreadRaw.v
           close == blendOut.close.v
           mr == blendIn.mr
       IN  /\ blendOut.a >= 0 /\ blendOut.a <= BlendScale
           /\ blendOut.eff = Num(blendOut.a * cur + (BlendScale - blendOut.a) * close)
           /\ IsNum(mr) =>
                /\ (mr.v >= 0 /\ mr.v <= BlendScale) => blendOut.a = BlendScale - mr.v
                /\ mr.v > BlendScale => blendOut.a = 0
                /\ mr.v = 48 => blendOut.eff = Num(BlendScale * close)
                /\ mr.v = 0 => blendOut.eff = Num(BlendScale * cur)

C3_Witness ==
    /\ blendOut.done /\ blendIn.status = "in"
    /\ blendIn.mr = Num(0)
    /\ IsNum(blendIn.spreadRaw) /\ IsNum(blendOut.close)
    /\ blendOut.close # blendIn.spreadRaw
    /\ blendOut.a = BlendScale
    /\ blendOut.eff = Num(BlendScale * blendIn.spreadRaw.v)

(* C4: no blend outside a live game or without a close: a row that is not   *)
(* 'in', and a live row with neither a stored nor an authoritative close,  *)
(* has effective spread = current spread; with no current spread the       *)
(* effective spread is absent.                                             *)
C4_NoBlendWithoutLiveClose ==
    blendOut.done =>
        LET r == blendIn
            noClose == IsNone(r.espn) /\ IsNone(r.stored)
        IN  /\ (IsNum(r.spreadRaw) /\ (r.status # "in" \/ noClose))
                  => blendOut.eff = Num(BlendScale * r.spreadRaw.v)
            /\ IsNone(r.spreadRaw) => ~IsNum(blendOut.eff)

C4_Witness ==
    /\ blendOut.done /\ blendIn.status = "in" /\ blendIn.gid
    /\ IsNone(blendIn.espn) /\ IsNone(blendIn.stored)
    /\ blendIn.mr = Num(24) /\ blendOut.a = 24
    /\ IsNum(blendIn.spreadRaw)
    /\ blendOut.eff = Num(BlendScale * blendIn.spreadRaw.v)

C6_StaleOnError ==
    (call.outcome # "none" /\ ~call.net.ok) =>
        LET f == call.before
        IN  /\ f.kind = "entry" =>
                  /\ call.outcome = "return" /\ call.from_cache /\ call.data = f.data
                  /\ call.after = f
            /\ call.outcome = "raise" => f.kind # "entry"

C6_Witness ==
    /\ call.outcome = "return" /\ ~call.net.ok /\ call.fetches = 1
    /\ call.before.kind = "entry" /\ call.at - call.before.ts > call.ttl
    /\ call.from_cache /\ call.data = call.before.data
    /\ call.after = call.before /\ cache[call.key] = call.before

(* C7: per-key failure isolation.  When the call got its odds and          *)
(* standings, a failing game summary or team impact task degrades that key *)
(* alone to its defaults (game: no injury report, provider 'League Pass',  *)
(* no authoritative close; team: empty roster, health 1.0, star factor 0); *)
(* the keys that succeeded keep their own results, the call returns a row  *)
(* for every game of the frame, and a task makes at most one fetch attempt *)
(* per cache call.                                                         *)
FeedCauses == {"no_api_key", "odds_request", "standings_request"}

C7_FailureIsolation ==
    /\ \A g \in Games :
          summaryTask[g].calls <= 1 /\ summaryTask[g].fetches <= summaryTask[g].calls
    /\ (pc = "done" /\ outcome.cause \notin FeedCauses) =>
          /\ (\E g \in Games : df[g].inDf) => outcome.result = "returned"
          /\ outcome.result = "returned" =>
                \A g \in Games :
                    /\ outcome.rows[g].made = df[g].inDf
                    /\ (df[g].inDf /\ df[g].gid /\ summaryTask[g].report = "none") =>
                          /\ outcome.rows[g].provider = "League Pass"
                          /\ outcome.rows[g].espn_close = NoneV
                    /\ (df[g].inDf /\ df[g].gid /\ summaryTask[g].report = "report") =>
                          /\ outcome.rows[g].provider = SummaryProvider(g)
                          /\ outcome.rows[g].espn_close = SummaryClose(g)
                    /\ (df[g].inDf /\ teamTask[HomeKey(g)].failed) =>
                          /\ outcome.rows[g].health_home.n = outcome.rows[g].health_home.d
                          /\ outcome.rows[g].star_home = 0
                    /\ (df[g].inDf /\ teamTask[AwayKey(g)].failed) =>
                          /\ outcome.rows[g].health_away.n = outcome.rows[g].health_away.d
                          /\ outcome.rows[g].star_away = 0
                    /\ (g = "g1" /\ df[g].inDf /\ teamTask[HomeKey(g)].players = Roster) =>
                          /\ outcome.rows[g].star_home = 1779570000
                          /\ (df[g].gid /\ summaryTask[g].report = "report") =>
                                outcome.rows[g].health_home = [n |-> 4400, d |-> 5000]

C7_Witness ==
    /\ pc = "done"
    /\ outcome.result = "returned"
    /\ \A g \in Games : outcome.rows[g].made /\ df[g].gid
    /\ summaryTask["g1"].report = "none"
    /\ summaryTask["g2"].report = "report"
    /\ outcome.rows["g1"].provider = "League Pass"
    /\ outcome.rows["g2"].provider = "Peacock"
    /\ teamTask["los angeles clippers"].failed
    /\ teamTask["boston celtics"].players = Roster
    /\ outcome.rows["g1"].star_away = 0
    /\ outcome.rows["g1"].star_home > 0

(* C8: when a whole upstream feed is unavailable (the odds request fails   *)
(* or has no API key, the standings request fails with no cached copy),    *)
(* build_watchability_df returns an empty table instead of raising.        *)
C8_EmptyTableWhenFeedUnavailable ==
    (pc = "done" /\ outcome.cause \in FeedCauses) =>
        outcome.result = "returned" /\ outcome.rows = NoRows

(* C9: join misses give neutral defaults.  For every game of the odds feed *)
(* that is in the frame the row is produced, without an exception; a team  *)
(* absent from standings has win_pct 0.5 and the importance floor, a team  *)
(* absent from every injury source has health 1.0, a team without roster   *)
(* data has star factor 0.                                                 *)
InjuriesUsed(g, k) ==
    IF df[g].gid /\ summaryTask[g].report = "report" THEN SummaryInjuries(g, k) ELSE <<>>

C9_JoinMissDefaults ==
    (pc = "done" /\ outcome.cause \notin FeedCauses) =>
        \A g \in Games : df[g].inDf =>
            LET row == outcome.rows[g]
            IN  /\ outcome.result = "returned"
                /\ row.made
                /\ HomeKey(g) \notin winpctKeys =>
                      row.win_home = 500 /\ row.imp_home = IMPORTANCE_FLOOR
                /\ AwayKey(g) \notin winpctKeys =>
                      row.win_away = 500 /\ row.imp_away = IMPORTANCE_FLOOR
                /\ (leagueInjuries[HomeKey(g)] = <<>> /\ InjuriesUsed(g, HomeKey(g)) = <<>>) =>
                      row.health_home.n = row.health_home.d
                /\ (leagueInjuries[AwayKey(g)] = <<>> /\ InjuriesUsed(g, AwayKey(g)) = <<>>) =>
                      row.health_away.n = row.health_away.d
                /\ teamTask[HomeKey(g)].players = <<>> => row.star_home = 0
                /\ teamTask[AwayKey(g)].players = <<>> => row.star_away = 0

C9_Witness ==
    /\ pc = "done"
    /\ outcome.result = "returned"
    /\ outcome.rows["g2"].made
    /\ winpctKeys = {"boston celtics"}
    /\ outcome.rows["g2"].win_home = 500
    /\ outcome.rows["g2"].win_away = 500
    /\ outcome.rows["g2"].imp_away = IMPORTANCE_FLOOR
    /\ ~teamTask["utah jazz"].failed
    /\ teamTask["utah jazz"].players = <<>>
    /\ outcome.rows["g2"].star_home = 0
    /\ outcome.rows["g2"].health_home = FullHealth
    /\ outcome.rows["g2"].star_away > 0

(* C10: every injury status the reconciler exposes (detail bundle entries   *)
(* and key-injuries text) is one of Available, Questionable, Doubtful, Out; *)
(* 'GTD' or another raw feed label never appears as a final status.         *)
ExposedStatuses ==
    {injOut.detail[k].status : k \in DOMAIN injOut.detail}
        \cup {injOut.key_injuries[k].status : k \in DOMAIN injOut.key_injuries}

C10_FourValuedStatus ==
    injOut.done => ExposedStatuses \subseteq {"Available", "Questionable", "Doubtful", "Out"}

(* C10, amended: every exposed status is 'Out', 'GTD' (a game-time decision *)
(* stays a final label) or the upper-cased feed label, never 'OUT', a       *)
(* day-to-day spelling, an empty or a mixed-case label; the injury weight   *)
(* carried with each detail entry is one of the four fixed weights.         *)
C10_ExposedStatusLabels ==
    injOut.done =>
        /\ \A s \in ExposedStatuses :
              \/ s \in {"Out", "GTD"}
              \/ s # "" /\ s = Upper(s) /\ s # "OUT" /\ Lower(s) \notin DayToDaySpellings
        /\ \A k \in DOMAIN injOut.detail :
              injOut.detail[k].injury_weight
                  \in {INJURY_WEIGHT_AVAILABLE, INJURY_WEIGHT_QUESTIONABLE,
                       INJURY_WEIGHT_DOUBTFUL, INJURY_WEIGHT_OUT}

C10_Witness ==
    /\ injOut.done
    /\ \E k \in DOMAIN injOut.detail :
          injOut.detail[k].status = "GTD" /\ injOut.detail[k].injury_weight = INJURY_WEIGHT_DOUBTFUL
    /\ \E k \in DOMAIN injOut.key_injuries : injOut.key_injuries[k].status = "Out"
    /\ \E k \in DOMAIN injOut.detail : injOut.detail[k].status = "DOUBTFUL"

(* C11: the weight of every player of the merged injury map is the fixed    *)
(* weight of the player's resolved status, Out > Doubtful > Questionable >  *)
(* Available = 0, whichever feed supplied the status: a status of           *)
(* Questionable or Doubtful carries a strictly positive weight, an unknown  *)
(* or absent one carries 0.                                                 *)
C11_FixedWeightOfStatus ==
    /\ INJURY_WEIGHT_OUT > INJURY_WEIGHT_DOUBTFUL
    /\ INJURY_WEIGHT_DOUBTFUL > INJURY_WEIGHT_QUESTIONABLE
    /\ INJURY_WEIGHT_QUESTIONABLE > INJURY_WEIGHT_AVAILABLE
    /\ INJURY_WEIGHT_AVAILABLE = 0
    /\ injOut.done =>
          \A k \in DOMAIN injOut.detail :
              LET e == injOut.detail[k]
              IN  /\ e.status = "Out" => e.injury_weight = INJURY_WEIGHT_OUT
                  /\ e.status = "DOUBTFUL" => e.injury_weight = INJURY_WEIGHT_DOUBTFUL
                  /\ e.status = "QUESTIONABLE" =>
                        e.injury_weight = INJURY_WEIGHT_QUESTIONABLE
                  /\ e.status \in {"AVAILABLE", "ACTIVE", "PROBABLE"} =>
                        e.injury_weight = INJURY_WEIGHT_AVAILABLE

(* C12: for a fixed roster, a player of the merged injury map with a        *)
(* positive injury weight makes the team's health strictly smaller than the *)
(* injury-free baseline 1.0.  The weight of an entry is the fixed weight of *)
(* its resolved status (C11): the weight the GTD heuristic inferred for a   *)
(* 'GTD' label, else the weight of the label.  The entry counted here is a  *)
(* roster player with a positive impact share.                              *)
StatusWeight(e) ==
    IF e.status = "GTD" \/ e.injury_weight > InjuryWeight(e.status)
    THEN e.injury_weight
    ELSE InjuryWeight(e.status)

C12_InjuryLowersHealth ==
    injOut.done =>
        \A k \in DOMAIN injOut.detail :
            LET e == injOut.detail[k]
            IN  (e.matched /\ e.raw_impact > 0 /\ StatusWeight(e) > 0) =>
                    injOut.health.n < injOut.health.d

(* C13: team health is clamp01(1 - overall_importance_weight * sum of       *)
(* weight * impact share over the merged players matched to the roster): it *)
(* lies in [0,1] for every roster and every merged injury map, and is       *)
(* exactly 1.0 when the merged injury map of the team and game is empty.    *)
MergedOfInput ==
    MergedTeamStatusMap(LeagueById(injIn.league), LeagueByName(injIn.league),
                        GameById(injIn.game), injIn.players)

C13_HealthInUnitInterval ==
    injOut.done =>
        LET h == injOut.health
            raw == 1 * h.d - INJURY_OVERALL_IMPORTANCE_WEIGHT * Penalty(injOut.detail)
        IN  /\ h.d > 0
            /\ 0 <= h.n /\ h.n <= h.d
            /\ (SumRaw(injIn.players) > 0 /\ DOMAIN MergedOfInput # {}) =>
                  /\ h.d = WeightScale * WeightScale * SumRaw(injIn.players)
                  /\ h.n = (IF raw < 0 THEN 0 ELSE IF raw > h.d THEN h.d ELSE raw)
            /\ DOMAIN MergedOfInput = {} => h = FullHealth

C13_Witness ==
    /\ injOut.done
    /\ DOMAIN MergedOfInput # {}
    /\ injOut.health.n = 0
    /\ INJURY_OVERALL_IMPORTANCE_WEIGHT * Penalty(injOut.detail) > injOut.health.d

(* C14: awi_label is a total, monotonic function of awi without gaps: every *)
(* awi of [0,100] has exactly one label (>= 90 Must Watch, >= 75 Strong     *)
(* Watch, >= 50 Watchable, >= 25 Skippable, else Hard Skip), and a larger   *)
(* awi never has a lower bucket.                                            *)
LabelRank(l) ==
    CASE l = "Hard Skip" -> 0 [] l = "Skippable" -> 1 [] l = "Watchable" -> 2
      [] l = "Strong Watch" -> 3 [] l = "Must Watch" -> 4

C14_LabelTotalMonotone ==
    (scoreOut.done /\ scoreIn.op = "label") =>
        LET a == scoreIn.awi
        IN  /\ Cardinality(scoreOut.labels) = 1
            /\ \A l \in scoreOut.labels :
                  /\ l = "Must Watch" <=> a >= 9000
                  /\ l = "Strong Watch" <=> (a >= 7500 /\ a < 9000)
                  /\ l = "Watchable" <=> (a >= 5000 /\ a < 7500)
                  /\ l = "Skippable" <=> (a >= 2500 /\ a < 5000)
                  /\ l = "Hard Skip" <=> a < 2500
                  /\ \A b \in AwiInputs :
                        b >= a => LabelRank(AwiLabel(b)) >= LabelRank(l)

C14_Witness ==
    /\ scoreOut.done
    /\ scoreIn.op = "label"
    /\ scoreIn.awi = 7500
    /\ scoreOut.labels = {"Strong Watch"}

(* C15: compute_watchability with win_home = 0.60, win_away = 0.55 and      *)
(* |spread| = 5 under the final parameters gives team_quality about 0.75,   *)
(* closeness about 0.72, awi about 74 and the label of the second-highest   *)
(* bucket, Strong Watch.                                                    *)
IsExample == scoreIn = [op |-> "watch", w1 |-> 600, w2 |-> 550, abs_spread |-> Num(10), awi |-> 0]

About(x, target, tol) == target - tol <= x.lo /\ x.hi <= target + tol

ExampleNumbers ==
    /\ scoreOut.team_quality = 750
    /\ About(scoreOut.closeness, 7200, 100)
    /\ About(scoreOut.awi, 7400, 50)

C15_ExampleStrongWatch ==
    (scoreOut.done /\ IsExample) => (ExampleNumbers /\ scoreOut.labels = {"Strong Watch"})

(* C15, amended: the same call gives team_quality 0.75, closeness about     *)
(* 0.72, awi about 74, and, 74 being below the Strong Watch threshold 75,   *)
(* the label of the third bucket, Watchable.                                *)
C15_ExampleWatchable ==
    (scoreOut.done /\ IsExample) => (ExampleNumbers /\ scoreOut.labels = {"Watchable"})

C15_Witness ==
    /\ scoreOut.done
    /\ IsExample
    /\ scoreOut.awi.hi < 7500
    /\ scoreOut.labels = {"Watchable"}

(* C16: team_quality(w1, w2) = clamp((avg(w1, w2) - win_min) / (win_max -   *)
(* win_min), floor, 1) is monotonically non-decreasing in the average win   *)
(* percentage and lies in [floor, 1] for all w1, w2 of [0,1].               *)
C16_TeamQualityMonotone ==
    (scoreOut.done /\ scoreIn.op = "watch") =>
        LET q == scoreOut.team_quality
            twice == scoreIn.w1 + scoreIn.w2
            lin == twice - 2 * WIN_MIN
        IN  /\ QUALITY_FLOOR <= q /\ q <= 1000
            /\ (QUALITY_FLOOR < q /\ q < 1000) =>
                  2 * (WIN_MAX - WIN_MIN) * q = 1000 * lin
            /\ q = QUALITY_FLOOR => 1000 * lin <= 2 * (WIN_MAX - WIN_MIN) * QUALITY_FLOOR
            /\ q = 1000 => lin >= 2 * (WIN_MAX - WIN_MIN)
            /\ \A v1, v2 \in WinPcts :
                  v1 + v2 >= twice => TeamQuality(v1, v2) >= q

C16_Witness ==
    /\ scoreOut.done
    /\ scoreIn.op = "watch"
    /\ scoreIn.w1 + scoreIn.w2 < 2 * WIN_MIN
    /\ scoreOut.team_quality = QUALITY_FLOOR

(* C17: barrier.  In both fan-outs every submitted task has completed and   *)
(* its result is filed before anything downstream reads the result maps:    *)
(* the league load, the freeze and the team fan-out start only when every   *)
(* summary future is filed, the rows are scored only when every team future *)
(* is filed, so no returned row comes from a partly filled map; and no pool *)
(* runs more tasks at a time than its configured number of workers.         *)
Submitted(g) == df[g].inDf /\ df[g].gid

C17_Barrier ==
    /\ Cardinality(Running(summaryTask)) <= SummaryWorkers
    /\ Cardinality(Running(teamTask)) <= StarWorkers
    /\ pc = "teams" =>
          \A g \in Games : summaryTask[g].state = IF Submitted(g) THEN "done" ELSE "idle"
    /\ (pc = "done" /\ outcome.result = "returned" /\ outcome.cause = "") =>
          /\ \A g \in Games : summaryTask[g].state = IF Submitted(g) THEN "done" ELSE "idle"
          /\ \A k \in TeamKeys :
                teamTask[k].state = IF k \in FeedTeams(oddsFeed) THEN "done" ELSE "idle"
          /\ \A g \in Games : outcome.rows[g].made =>
                /\ Submitted(g) =>
                      /\ outcome.rows[g].provider = summaryTask[g].provider
                      /\ outcome.rows[g].espn_close = summaryTask[g].close
                /\ outcome.rows[g].star_home
                      = StarFactor(teamTask[HomeKey(g)].players, leagueInjuries[HomeKey(g)],
                                   InjuriesUsed(g, HomeKey(g)), DayName(g))
                /\ outcome.rows[g].star_away
                      = StarFactor(teamTask[AwayKey(g)].players, leagueInjuries[AwayKey(g)],
                                   InjuriesUsed(g, AwayKey(g)), DayName(g))
                /\ outcome.rows[g].health_home
                      = TeamKeyInjuriesAndHealth(teamTask[HomeKey(g)].players,
                            leagueInjuries[HomeKey(g)], InjuriesUsed(g, HomeKey(g)),
                            DayName(g)).health

C17_Witness ==
    /\ pc = "done"
    /\ outcome.result = "returned"
    /\ \A g \in Games : outcome.rows[g].made /\ summaryTask[g].state = "done"
    /\ \A k \in TeamKeys : teamTask[k].state = "done"
    /\ teamTask["boston celtics"].players = Roster
    /\ teamTask["los angeles clippers"].players # <<>>
    /\ outcome.rows["g1"].star_home > 0
    /\ outcome.rows["g2"].star_away > 0
    /\ outcome.rows["g2"].provider = "Peacock"

\* C18: for a fixed snapshot of feed responses and cache contents, the table
\* build_watchability_df returns is the same for every completion order and
\* interleaving of the pool tasks: every returned row is the row computed
\* from the players each team task gives when it meets the same initial
\* "teams" cache file and the same answers with no other task beside it.
AloneImpacts ==
    [k \in TeamKeys |-> IF teamTask[k].state = "done"
                        THEN TeamAlone(k, teamsCache, teamTask[k].c) ELSE <<>>]

C18_SameTableForEveryInterleaving ==
    (outcome.result = "returned" /\ outcome.cause = "") =>
        \A g \in Games : df[g].inDf => outcome.rows[g] = RowFrom(g, AloneImpacts)

\* C19: for a live game whose clock text is 'M:SS Qn' as the scoreboard
\* formatter writes it for periods 1..4, the minutes remaining are
\* max(0, 4 - n) * 12 + (60 * M + SS) / 60 (here in seconds), so that the live
\* weight is 0 at '12:00 Q1' and 1 at '0:00 Q4'.
ClockText(m, ss, n) == Text(ClockOf(m, ss).s \o <<" ", "Q">> \o StrOfInt(n))

C19_MinutesFromClockText ==
    clockOut.done =>
        \A m \in {0, 5, 12}, ss \in {0, 32}, n \in 1..4 :
            (clockIn.status = "in" /\ clockOut.tr = ClockText(m, ss, n)) =>
                /\ ~clockOut.raised
                /\ clockOut.mr = Num(Max0(4 - n) * 12 * 60 + 60 * m + ss)
                /\ (m = 12 /\ ss = 0 /\ n = 1) => clockOut.a = 0
                /\ (m = 0 /\ ss = 0 /\ n = 4) => clockOut.a = ClockScale

\* C20: authoritative override.  In the table a call returns, the "Home spread
\* close" of a game whose id has a closing spread in the ESPN summary is that
\* spread, whatever the local store holds for the game; the stored spread is
\* the close only of a game with no summary close; and the store never holds
\* a summary close.
C20_AuthoritativeOverride ==
    /\ \A g \in Games :
          ~IsNone(summaryTask[g].close) => closeStoreFile[g] # summaryTask[g].close
    /\ (outcome.result = "returned" /\ outcome.cause = "") =>
          \A g \in Games : (df[g].inDf /\ df[g].gid) =>
              LET row == outcome.rows[g]
              IN  /\ ~IsNone(summaryTask[g].close) => row.close = summaryTask[g].close
                  /\ (IsNone(summaryTask[g].close) /\ ~IsNone(closeStoreFile[g])) =>
                        row.close = closeStoreFile[g]
                  /\ (row.close = closeStoreFile[g] /\ ~IsNone(row.close)) =>
                        IsNone(summaryTask[g].close)

\* a live game with an older frozen spread and a summary close, and a game
\* frozen by this call with a summary close
C20_Witness ==
    /\ outcome.result = "returned"
    /\ df["g1"].inDf /\ df["g1"].gid
    /\ summaryTask["g1"].close = Num(-10)
    /\ closeStoreFile["g1"] \in {Num(-9), Num(-7)}
    /\ outcome.rows["g1"].close = Num(-10)

\* C21: in one build pass the store file is written at most once, and only
\* if the pass changed the store's contents: a pass that observes no
\* pre-game spread, or only pre-game spreads equal to the stored values,
\* does not rewrite the file.
C21_SavedOnlyIfChanged ==
    [][passes' = passes + 1 =>
          /\ storeSaves' <= 1
          /\ storeSaves' = 1 => closeStoreFile' # closeStoreFile]_vars

\* C22: a reader of the cache file that runs beside any number of writers,
\* several writers of the same key included, reads a complete earlier
\* payload or a complete new one (or finds no file), never a partially
\* written file.
C22_NoPartialRead ==
    \A t \in Threads : thr[t].saw # "unreadable"

\* C23: within one fan-out no two concurrently running tasks write the same
\* cache file: the summary tasks of two games have different cache keys, and
\* at most one team task is writing the file of a key at a time.
C23_NoWriteContention ==
    /\ \A g, h \in Games : g # h => SummaryKey(g) # SummaryKey(h)
    /\ Cardinality({k \in TeamKeys : teamTask[k].state = "writing"}) <= 1

\* C29: whenever the request succeeds with valid JSON, get_json_cached
\* returns the fetched data with from_cache = False, also when several
\* threads fetch the same key at once; a failure while writing the cache file
\* never gives an error or a stale result.
C29_FetchedDataReturned ==
    \A t \in Threads :
        (thr[t].pc = "done" /\ thr[t].fetched) =>
            thr[t].result = [outcome |-> "return", data |-> KeyBody, from_cache |-> FALSE]

\* C24: injury merge priority.  The merged status of player id p is the
\* league feed's status when the league feed has p by id, whatever the
\* per-game block says; else the per-game block's status when p is in that
\* block; else, for a roster player whose name is in the league feed's
\* by-name map, that entry's status; else p is not in the merged map.  The
\* merged map is read off the detail bundle, which has one entry per merged
\* player with the display form of the merged status.
MergedByPriority(p) ==
    LET by_id == LeagueById(injIn.league)
        by_name == LeagueByName(injIn.league)
        by_game == GameById(injIn.game)
        named == {k \in DOMAIN injIn.players :
                     /\ injIn.players[k].athlete_id = p
                     /\ NameKey(injIn.players[k].name) \in DOMAIN by_name}
    IN  IF p \in DOMAIN by_id THEN by_id[p]
        ELSE IF p \in DOMAIN by_game THEN Upper(NormalizeStatusForDisplay(by_game[p]))
        ELSE IF named # {}
        THEN by_name[NameKey(injIn.players[CHOOSE k \in named : TRUE].name)]
        ELSE "absent"

PlayerIds == {"1", "2", "9"}

DisplayOf(label) == NormalizeStatusForDisplay(Upper(NormalizeStatusForDisplay(label)))

C24_MergePriority ==
    injOut.done =>
        \A p \in PlayerIds :
            LET es == {k \in DOMAIN injOut.detail : injOut.detail[k].player_id = p}
            IN  IF MergedByPriority(p) = "absent"
                THEN es = {}
                ELSE /\ Cardinality(es) = 1
                     /\ \A k \in es : injOut.detail[k].status = DisplayOf(MergedByPriority(p))

\* the league feed has player 1 as GTD and the summary has him as Out; the
\* roster's player 2 is in the league feed under a foreign id and his name
C24_Witness ==
    /\ injOut.done
    /\ injIn.players = Roster
    /\ "1" \in DOMAIN LeagueById(injIn.league) /\ LeagueById(injIn.league)["1"] = "GTD"
    /\ "1" \in DOMAIN GameById(injIn.game) /\ GameById(injIn.game)["1"] = "Out"
    /\ "2" \notin DOMAIN LeagueById(injIn.league) \cup DOMAIN GameById(injIn.game)
    /\ \E k \in DOMAIN injOut.detail :
          injOut.detail[k].player_id = "1" /\ injOut.detail[k].status = "GTD"
    /\ \E k \in DOMAIN injOut.detail :
          injOut.detail[k].player_id = "2" /\ injOut.detail[k].status = "Out"

\* C25: day-of-week gating.  For a player whose status is the day-to-day
\* code GTD, the probable / doubtful / questionable keyword of the injury
\* comment decides the weight only if the comment mentions the day of the
\* week of the game; with no comment, a comment that does not mention that
\* day, or no keyword, the weight is the default Questionable weight.
CommentOf(pid) ==
    LET es == {k \in DOMAIN injIn.league : injIn.league[k].id = pid}
    IN  IF es = {} THEN NoComment ELSE injIn.league[CHOOSE k \in es : TRUE].comment

KeywordWeights(sc) ==
    {InjuryWeight(w) : w \in sc.words \cap {"probable", "doubtful", "questionable"}}

C25_DayOfWeekGating ==
    injOut.done =>
        \A k \in DOMAIN injOut.detail :
            LET e == injOut.detail[k]
                sc == CommentOf(e.player_id)
                dow == Lower(injIn.target_dow)
            IN  e.status = "GTD" =>
                    IF dow # "" /\ dow \in sc.days /\ KeywordWeights(sc) # {}
                    THEN e.injury_weight \in KeywordWeights(sc)
                    ELSE e.injury_weight = INJURY_WEIGHT_QUESTIONABLE

\* a GTD player whose comment says doubtful for Saturday, in a Friday game
C25_Witness ==
    /\ injOut.done
    /\ injIn.target_dow = "Friday"
    /\ \E k \in DOMAIN injOut.detail :
          /\ injOut.detail[k].status = "GTD"
          /\ CommentOf(injOut.detail[k].player_id) = [days |-> {"saturday"}, words |-> {"doubtful"}]
          /\ injOut.detail[k].injury_weight = INJURY_WEIGHT_QUESTIONABLE

\* C26: the key-injuries list of a team holds exactly the penalized players
\* (matched to the roster, injury weight > 0) whose impact share is at least
\* the threshold, plus the team's top player when his status is Out-tier; no
\* player whose injury weight is 0 is listed.
PenalizedKey ==
    LET top == TopScorer(injIn.players)
    IN  {k \in DOMAIN injOut.detail :
            LET e == injOut.detail[k]
            IN  /\ e.matched
                /\ e.injury_weight > 0
                /\ \/ WeightScale * e.raw_impact
                         >= KEY_INJURY_IMPACT_SHARE_THRESHOLD * SumRaw(injIn.players)
                   \/ (top.athlete_id # "" /\ e.player_id = top.athlete_id
                          /\ StatusPriority(e.status) >= 3)}

C26_KeyInjuriesExact ==
    injOut.done =>
        {injOut.key_injuries[k] : k \in DOMAIN injOut.key_injuries}
            = {[name |-> injOut.detail[k].player, status |-> injOut.detail[k].status] :
                   k \in PenalizedKey}

\* C27: the star factor of a team is bump * (star_sum / denominator)^3 *
\* (1 - injury weight of the status of the team's top star-score player): it
\* is never negative, and it is 0 when that player's resolved status is Out
\* or the team has no roster; the adjusted win% is win_pct_raw * health plus
\* the star factor, clamped to [0, 1].
TopEntries ==
    {k \in DOMAIN injOut.detail :
        injOut.detail[k].player_id = TopScorer(injIn.players).athlete_id}

TopWeight ==
    IF TopEntries = {} THEN 0
    ELSE injOut.detail[CHOOSE k \in TopEntries : TRUE].injury_weight

C30_PlayerCountedOnce ==
    injOut.done =>
        /\ \A p \in DOMAIN injIn.players :
               Cardinality({k \in DOMAIN injOut.detail :
                               /\ injOut.detail[k].matched
                               /\ injOut.detail[k].player = injIn.players[p].name}) <= 1
        /\ Penalty(injOut.detail) <= WeightScale * SumRaw(injIn.players)
        /\ WeightScale * injOut.health.n
              >= (WeightScale - INJURY_OVERALL_IMPORTANCE_WEIGHT) * injOut.health.d

\* C28: every team of the standings detail map has importance
\* clamp((10 - (seed_radius + playoff_radius)) / 10, floor, ceiling), with
\* seed_radius the least |games-behind delta| to the adjacent seeds of its
\* conference and playoff_radius the least |games-behind delta| to the
\* conference's 6th and 10th seeds; importance is within [floor, ceiling], and
\* a team without conference, seed, games behind or reference seeds has the floor.
Ranked(d) ==
    d.conference \in Conferences /\ IsNum(d.playoff_seed) /\ IsNum(d.games_behind)

\* the least distance in games behind from d to the ranked teams of its
\* conference that hold one of the seeds
Radius(d, seeds) ==
    LET near == {k \in DOMAIN impIn :
                    /\ Ranked(impIn[k])
                    /\ impIn[k].conference = d.conference
                    /\ impIn[k].playoff_seed.v \in seeds}
        deltas == {AbsDelta(impIn[k].games_behind.v, d.games_behind.v) : k \in near}
    IN  IF deltas = {} THEN NoneV
        ELSE Num(CHOOSE m \in deltas : \A o \in deltas : m <= o)

C28_ImportanceFormula ==
    impOut.done =>
        /\ DOMAIN impOut.map = {impIn[k].team : k \in DOMAIN impIn}
        /\ \A k \in DOMAIN impIn :
              LET d == impIn[k]
                  imp == impOut.map[d.team].importance
                  sr == Radius(d, {d.playoff_seed.v - 1, d.playoff_seed.v + 1})
                  pr == Radius(d, {6, 10})
              IN  /\ IMPORTANCE_FLOOR <= imp /\ imp <= IMPORTANCE_CEILING
                  /\ IF ~Ranked(d) THEN imp = IMPORTANCE_FLOOR
                     ELSE IF IsNone(sr) \/ IsNone(pr) THEN imp = IMPORTANCE_FLOOR
                     ELSE imp = Clamp(5 * (20 - (sr.v + pr.v)),
                                      IMPORTANCE_FLOOR, IMPORTANCE_CEILING)

====
